---- MODULE Spec2Model ----
(***************************************************************************)
(* Model of pit's DAG execution engine (internal/engine/executor.go):      *)
(* Execute, topoSort, executeDAG, hasUpstreamFailure and executeTask.      *)
(* One Run is executed; the executor goroutine walks the levels and one    *)
(* supervisor goroutine per dispatched task runs the retry loop.           *)
(* Specification Spec.                                                     *)
(*                                                                         *)
(* The scheduler (internal/serve/server.go: Start, handleEvent) with its   *)
(* triggers, event channel and the runs it launches, each with its RPC     *)
(* socket, is specification SpecServe.                                     *)
(***************************************************************************)
EXTENDS Integers, Sequences, FiniteSets, TLC

(* ---------------------------------------------------------------------- *)
(* Bounds                                                                  *)
(* ---------------------------------------------------------------------- *)

\* largest value of TaskConfig.Retries that is enumerated
MaxRetriesBound == 1

\* largest value of ExecuteOpts.Concurrency that is enumerated
MaxConcurrency == 1

(* ---------------------------------------------------------------------- *)
(* Inputs: task lists (cfg.Tasks) and options                              *)
(* ---------------------------------------------------------------------- *)

\* cfg.Tasks in declared order (names are unique: dag.Validate)
TaskOrder == <<"a", "b", "c", "d">>

TaskNames == {TaskOrder[i] : i \in DOMAIN TaskOrder}

\* a name that is no task of the DAG (for --task with an unknown name)
NoSuchTask == "zz"

\* the depends_on lists of the DAGs that are executed
DAGs ==
  << \* a, b <- a, c <- b, d independent
     [a |-> <<>>, b |-> <<"a">>, c |-> <<"b">>, d |-> <<>>],
     \* diamond
     [a |-> <<>>, b |-> <<"a">>, c |-> <<"a">>, d |-> <<"b", "c">>],
     \* two branches, declared in the reverse of the dependency order
     [a |-> <<"b">>, b |-> <<>>, c |-> <<"d">>, d |-> <<>>],
     \* cycle b <-> c
     [a |-> <<>>, b |-> <<"c">>, c |-> <<"b">>, d |-> <<"a">>] >>

\* the sets of tasks that are configured with retries > 0
RetrySets == {TaskNames, {"a"}, {"b", "d"}}

\* the retry settings that are enumerated: task name -> retries
RetriesChoices ==
  {[n \in TaskNames |-> IF n \in S THEN r ELSE 0] :
     r \in 0 .. MaxRetriesBound, S \in RetrySets}

\* the sets of tasks whose retry_delay is positive
DelayChoices == {{}, TaskNames}

(* ---------------------------------------------------------------------- *)
(* Statuses and errors                                                     *)
(* ---------------------------------------------------------------------- *)

StatusPending == "pending"
StatusRunning == "running"
StatusSuccess == "success"
StatusFailed == "failed"
StatusSkipped == "skipped"
StatusUpstreamFailed == "upstream_failed"

Terminal == {StatusSuccess, StatusFailed, StatusSkipped, StatusUpstreamFailed}

\* error values: nil, a setup error of executeTask, the error of runner
\* attempt number `at`, and the two context errors
NoError == [kind |-> "nil", at |-> 0]
SetupError == [kind |-> "setup", at |-> 0]
RunError(k) == [kind |-> "run", at |-> k]
CtxError(e) == [kind |-> e, at |-> 0]

\* the errors Execute returns: nil, the four failures before the Run is
\* built, an unknown opts.TaskName and a cycle
NilError == ""
SetupErrors ==
  {"snapshot", "seeding data dir", "loading secrets", "starting SDK server"}
TaskNotFoundError == "task not found in DAG"
CycleError == "cycle detected in task dependencies"

\* mutant: a failed run is returned as an error
ReturnedErrorOfFailedRun(status) ==
  IF status = StatusFailed THEN "run failed" ELSE NilError

\* return run, nil
ReturnedError(status) == NilError

VARIABLES
  tasks,        \* run.Tasks: name -> TaskInstance
  opts,         \* ExecuteOpts: TaskName, Concurrency
  ctxErr,       \* ctx.Err() of the run context: "none", "canceled", "deadline"
  pc,           \* position of Execute / executeDAG
  levels,       \* result of topoSort
  li,           \* index of the level executeDAG is at
  di,           \* index in the level of the next task to dispatch
  statusMap,    \* the per-level snapshot of statuses
  tpc,          \* position of each task's goroutine / executeTask call
  attempt,      \* the loop variable `attempt` of each executeTask call
  sem,          \* number of slots taken in the semaphore channel
  runStatus,    \* run.Status
  invocations,  \* history: number of r.Run calls per task
  results,      \* history: per task, whether each r.Run call returned nil
  cancelInfo,   \* history: what held when the context became done
  execErr       \* the error Execute returned ("": nil, or none yet)

vars == <<tasks, opts, ctxErr, pc, levels, li, di, statusMap, tpc, attempt,
          sem, runStatus, invocations, results, cancelInfo, execErr>>

\* the scheduler (serve.Server)
VARIABLES
  overlapCfg,   \* cfg.DAG.Overlap of each DAG
  goos,         \* runtime.GOOS of the build
  srvCtxDone,   \* the context given to Start is done
  eventCh,      \* s.eventCh
  trig,         \* each trigger goroutine: "running" or "returned"
  fired,        \* history: number of events sent by the triggers
  loopPc,       \* position of the event-processing goroutine
  curEv,        \* the event handleEvent was called with
  activeRuns,   \* s.activeRuns
  runWg,        \* counter of runWg
  startPc,      \* position of Start
  runs,         \* the run goroutines launched by handleEvent, in order
  sockOwner,    \* the run whose listener the socket file names (0: no file)
  served        \* history: <<run of the client task, run of the service>>

serveVars == <<overlapCfg, goos, srvCtxDone, eventCh, trig, fired, loopPc,
               curEv, activeRuns, runWg, startPc, runs, sockOwner, served>>

(* The state of one sdk.Server (Serve, Shutdown, handleConn) *)
VARIABLES
  sdkCtxDone,   \* the context given to Serve is done
  listenerOpen, \* s.listener is open
  servePc,      \* position of Serve
  closerPc,     \* the goroutine of Serve that closes the listener
  shutdownPc,   \* position of Shutdown
  connWg,       \* counter of s.wg
  conns         \* the client connections, in the order they were made

sdkVars == <<sdkCtxDone, listenerOpen, servePc, closerPc, shutdownPc, connWg,
             conns>>

(* The state of one FTPWatchTrigger and of the directory it watches *)
VARIABLES
  threshold,    \* t.stableSeconds
  remote,       \* size of each matching file in the directory (0: absent)
  tracking,     \* the tracking map of Start
  now,          \* the clock, in seconds
  lastPoll,     \* time of the last call of poll
  lastEvent,    \* history: Files of the event sent by the last poll
  emitCount,    \* history: events with the file since its size last changed
  lastObs,      \* history: size of each file in the last listing
  sawSame,      \* history: two listings in a row showed the file's size
  changes,      \* history: listings that showed the file with a new size
  watchCtxDone  \* the context given to Start and poll is done

watchVars == <<threshold, remote, tracking, now, lastPoll, lastEvent,
               emitCount, lastObs, sawSame, changes, watchCtxDone>>

(* The state of one call of topoSort by Execute *)
VARIABLES
  topoDeps,     \* DependsOn of each task of run.Tasks
  topoPc,       \* "call" before and "returned" after topoSort
  topoRes,      \* what topoSort returned
  topoRun       \* the tasks of the levels handed to executeDAG

topoVars == <<topoDeps, topoPc, topoRes, topoRun>>

(* The clock and the runs that Execute was called for *)
VARIABLES
  ridOverlap,   \* cfg.DAG.Overlap of each DAG
  ridNow,       \* what time.Now() returns, in clock ticks
  ridRuns       \* the calls of Execute, in the order of GenerateRunID

ridVars == <<ridOverlap, ridNow, ridRuns>>

(* One secrets.Store and one call of Resolve or of the get_secret handler *)
VARIABLES
  secStore,     \* s.data: the secret of each scope and key
  secCall,      \* the call that was made: method, project or DAG name, key
  secOut        \* what the call returned

secVars == <<secStore, secCall, secOut>>

(* The prefixWriters of the tasks of one level and the terminal *)
VARIABLES
  pwCalls,      \* history: the calls of Write each task has made
  pwBuf,        \* pw.buf of each task's prefixWriter
  pwPc,         \* position of each task's call of Write
  pwStream      \* the writes that os.Stdout received, in order

pwVars == <<pwCalls, pwBuf, pwPc, pwStream>>

(* One call of executeTask for a task with a script file *)
VARIABLES
  scScript,     \* ti.Script, as its path elements
  scSetupOk,    \* runner.Resolve and os.Create of the log file succeed
  scTask,       \* Status, Attempt, MaxRetries and Error of the task
  scPc,         \* position of executeTask
  scAttempt,    \* the loop variable attempt
  scInvocations \* history: calls of r.Run

scriptVars == <<scScript, scSetupOk, scTask, scPc, scAttempt, scInvocations>>

(* One CronTrigger, its scheduler and the channel it sends to *)
VARIABLES
  cronCtxDone,  \* the context given to Start is done
  cronCh,       \* the events channel
  cronStartPc,  \* position of Start
  cronRunning,  \* the scheduler of c runs (between c.Start and c.Stop)
  cronFires,    \* the job goroutines the scheduler started, in order
  cronSent      \* history: the sends that completed, with their fire

cronVars == <<cronCtxDone, cronCh, cronStartPc, cronRunning, cronFires,
              cronSent>>

(* One call of FindStableFiles *)
VARIABLES
  fsTracking,   \* argument tracking
  fsThreshold,  \* argument threshold
  fsNow,        \* argument now
  fsPc,         \* position of the call
  fsOut         \* the slice returned

stableVars == <<fsTracking, fsThreshold, fsNow, fsPc, fsOut>>

\* everything that is no state of the engine
outsideEngine == <<serveVars, sdkVars, watchVars, topoVars, ridVars, secVars, pwVars, scriptVars, cronVars, stableVars>>

\* everything that is no state of the scheduler
outsideServe == <<vars, sdkVars, watchVars, topoVars, ridVars, secVars, pwVars, scriptVars, cronVars, stableVars>>

\* everything that is no state of the RPC server
outsideSDK == <<vars, serveVars, watchVars, topoVars, ridVars, secVars, pwVars, scriptVars, cronVars, stableVars>>

\* everything that is no state of the file watch
outsideWatch == <<vars, serveVars, sdkVars, topoVars, ridVars, secVars, pwVars, scriptVars, cronVars, stableVars>>

\* everything that is no state of the topoSort call
outsideTopo == <<vars, serveVars, sdkVars, watchVars, ridVars, secVars, pwVars, scriptVars, cronVars, stableVars>>

\* everything that is no state of the run identifiers
outsideRunID == <<vars, serveVars, sdkVars, watchVars, topoVars, secVars, pwVars, scriptVars, cronVars, stableVars>>

\* everything that is no state of the secrets store
outsideSecrets == <<vars, serveVars, sdkVars, watchVars, topoVars, ridVars, pwVars, scriptVars, cronVars, stableVars>>

\* everything that is no state of the prefixWriters
outsidePrefix == <<vars, serveVars, sdkVars, watchVars, topoVars, ridVars, secVars, scriptVars, cronVars, stableVars>>

\* everything that is no state of the script task
outsideScript == <<vars, serveVars, sdkVars, watchVars, topoVars, ridVars, secVars, pwVars, cronVars, stableVars>>

\* everything that is no state of the cron trigger
outsideCron == <<vars, serveVars, sdkVars, watchVars, topoVars, ridVars, secVars, pwVars, scriptVars, stableVars>>

\* everything that is no state of outsideStable
outsideStable == <<vars, serveVars, sdkVars, watchVars, topoVars, ridVars, secVars, pwVars, scriptVars, cronVars>>

\* the engine variables in the specifications that do not run the engine
EngineIdle ==
  /\ tasks = [n \in TaskNames |->
                [Status |-> StatusPending, DependsOn |-> <<>>, Attempt |-> 0,
                 MaxRetries |-> 0, RetryDelay |-> 0, Error |-> NoError]]
  /\ opts = [TaskName |-> "", Concurrency |-> 0]
  /\ ctxErr = "none"
  /\ pc = "idle"
  /\ levels = <<>>
  /\ li = 1
  /\ di = 1
  /\ statusMap = [n \in TaskNames |-> StatusPending]
  /\ tpc = [n \in TaskNames |-> "idle"]
  /\ attempt = [n \in TaskNames |-> 0]
  /\ sem = 0
  /\ runStatus = StatusRunning
  /\ invocations = [n \in TaskNames |-> 0]
  /\ results = [n \in TaskNames |-> <<>>]
  /\ cancelInfo = [level |-> 0, mode |-> "none", sleepers |-> {},
                   invocations |-> [n \in TaskNames |-> 0]]
  /\ execErr = NilError

\* the scheduler variables in the specifications without a scheduler
ServeIdle ==
  /\ overlapCfg = <<>>
  /\ goos = "linux"
  /\ srvCtxDone = FALSE
  /\ eventCh = <<>>
  /\ trig = <<>>
  /\ fired = 0
  /\ loopPc = "idle"
  /\ curEv = <<>>
  /\ activeRuns = <<>>
  /\ runWg = 0
  /\ startPc = "idle"
  /\ runs = <<>>
  /\ sockOwner = 0
  /\ served = {}

\* the RPC server variables in the specifications without one
SDKIdle ==
  /\ sdkCtxDone = FALSE
  /\ listenerOpen = FALSE
  /\ servePc = "idle"
  /\ closerPc = "idle"
  /\ shutdownPc = "idle"
  /\ connWg = 0
  /\ conns = <<>>

\* the file-watch variables in the specifications without a file watch
WatchIdle ==
  /\ threshold = 0
  /\ remote = <<>>
  /\ tracking = <<>>
  /\ now = 0
  /\ lastPoll = 0
  /\ lastEvent = {}
  /\ emitCount = <<>>
  /\ lastObs = <<>>
  /\ sawSame = <<>>
  /\ changes = <<>>
  /\ watchCtxDone = FALSE

\* the topoSort variables in the specifications of the other components
TopoIdle ==
  /\ topoDeps = <<>>
  /\ topoPc = "idle"
  /\ topoRes = <<>>
  /\ topoRun = {}

\* the run-identifier variables in the specifications of the other components
RunIDIdle ==
  /\ ridOverlap = <<>>
  /\ ridNow = 0
  /\ ridRuns = <<>>

\* the secrets variables in the specifications of the other components
SecretsIdle ==
  /\ secStore = <<>>
  /\ secCall = <<>>
  /\ secOut = <<>>

\* the prefixWriter variables in the specifications of the other components
PrefixIdle ==
  /\ pwCalls = <<>>
  /\ pwBuf = <<>>
  /\ pwPc = <<>>
  /\ pwStream = <<>>

\* the script-task variables in the specifications of the other components
ScriptIdle ==
  /\ scScript = <<>>
  /\ scSetupOk = FALSE
  /\ scTask = <<>>
  /\ scPc = "idle"
  /\ scAttempt = 0
  /\ scInvocations = 0

\* the cron-trigger variables in the specifications of the other components
CronIdle ==
  /\ cronCtxDone = FALSE
  /\ cronCh = <<>>
  /\ cronStartPc = "idle"
  /\ cronRunning = FALSE
  /\ cronFires = <<>>
  /\ cronSent = <<>>

\* the variables of the call of FindStableFiles in the other specifications
StableIdle ==
  /\ fsTracking = <<>>
  /\ fsThreshold = 0
  /\ fsNow = 0
  /\ fsPc = "idle"
  /\ fsOut = <<>>

(* ---------------------------------------------------------------------- *)
(* topoSort                                                                *)
(* ---------------------------------------------------------------------- *)

Occurrences(seq, x) == Cardinality({i \in DOMAIN seq : seq[i] = x})

\* inDegree[t.Name] = len(t.DependsOn)
InitialInDegree(deps) == [n \in TaskNames |-> Len(deps[n])]

\* mutant: every unresolved task enters the level
NextLevelAllUnresolved(resolved, inDegree) ==
  SelectSeq(TaskOrder, LAMBDA n : n \notin resolved)

\* mutant: a level takes the first ready task only
NextLevelFirstOnly(resolved, inDegree) ==
  LET ready == SelectSeq(TaskOrder,
                         LAMBDA n : n \notin resolved /\ inDegree[n] = 0)
  IN  IF ready = <<>> THEN <<>> ELSE <<Head(ready)>>

\* the tasks, in declared order, that are unresolved and have inDegree 0
NextLevel(resolved, inDegree) ==
  SelectSeq(TaskOrder, LAMBDA n : n \notin resolved /\ inDegree[n] = 0)

\* mutant: a dependent of a task of the level gets inDegree 0
DecrementToZero(deps, inDegree, level) ==
  [n \in TaskNames |->
     IF \E i \in DOMAIN level : Occurrences(deps[n], level[i]) > 0
     THEN 0 ELSE inDegree[n]]

\* for every t of the level and every dependent of t: inDegree[dep]--
Decrement(deps, inDegree, level) ==
  [n \in TaskNames |->
     LET RECURSIVE Sum(_)
         Sum(i) == IF i = 0 THEN 0
                   ELSE Occurrences(deps[n], level[i]) + Sum(i - 1)
     IN inDegree[n] - Sum(Len(level))]

\* the task names in fmt.Errorf("cycle detected in task dependencies")
CycleErrorNames == {}

RECURSIVE Kahn(_, _, _, _)
Kahn(deps, resolved, inDegree, acc) ==
  IF Cardinality(resolved) >= Len(TaskOrder)
  THEN [err |-> FALSE, levels |-> acc, named |-> {}]
  ELSE LET level == NextLevel(resolved, inDegree)
       IN IF Len(level) = 0
          THEN [err |-> TRUE, levels |-> <<>>, named |-> CycleErrorNames]
          ELSE Kahn(deps,
                    resolved \cup {level[i] : i \in DOMAIN level},
                    Decrement(deps, inDegree, level),
                    Append(acc, level))

topoSort(deps) == Kahn(deps, {}, InitialInDegree(deps), <<>>)

(* ---------------------------------------------------------------------- *)
(* Helpers of executeDAG and executeTask                                   *)
(* ---------------------------------------------------------------------- *)

\* mutant: the condition inverted (ctx.Err() == nil)
CtxNotDone == ctxErr = "none"

\* ctx.Err() != nil
CtxDone == ctxErr # "none"

\* mutant: only StatusFailed counts, an upstream_failed dependency does not
hasUpstreamFailureFailedOnly(ti, sm) ==
  \E i \in DOMAIN tasks[ti].DependsOn :
     sm[tasks[ti].DependsOn[i]] = StatusFailed

\* mutant: any failed task of the run counts, not only a dependency
hasUpstreamFailureAnyTask(ti, sm) ==
  \E n \in TaskNames : sm[n] \in {StatusFailed, StatusUpstreamFailed}

hasUpstreamFailure(ti, sm) ==
  \E i \in DOMAIN tasks[ti].DependsOn :
     sm[tasks[ti].DependsOn[i]] \in {StatusFailed, StatusUpstreamFailed}

\* mutant: one attempt too many
maxAttemptsOneMore(ti) == tasks[ti].MaxRetries + 2

\* mutant: the first attempt is not counted
maxAttemptsNoFirst(ti) == tasks[ti].MaxRetries

\* maxAttempts := ti.MaxRetries + 1
maxAttempts(ti) == tasks[ti].MaxRetries + 1

\* mutant: the tasks of the level are left as they are
CancelledStatusKept(s) == s

\* mutant: the tasks of the level are marked upstream_failed
CancelledStatusUpstream(s) ==
  IF s = StatusPending THEN StatusUpstreamFailed ELSE s

\* the status a task of a level gets when the level is reached with a done
\* context: only a pending task is changed
CancelledStatus(s) == IF s = StatusPending THEN StatusFailed ELSE s

\* mutant: single-task mode leaves the other tasks pending
SingleTaskStatusAllPending(name) == StatusPending

\* single-task mode: the status each task gets before the task is run
SingleTaskStatus(name) ==
  IF name = opts.TaskName THEN StatusPending ELSE StatusSkipped

\* mutant: the level wait does not wait
LevelFinishedNoWait(level) == TRUE

\* mutant: the level wait looks at the first goroutine of the level only
LevelFinishedFirstOnly(level) == tpc[level[1]] \in {"idle", "done"}

\* wg.Wait(): every goroutine of the level has called wg.Done
LevelFinished(level) ==
  \A i \in DOMAIN level : tpc[level[i]] \in {"idle", "done"}

\* mutant: a skipped task makes the run failed
AggregateStatusSkippedFails ==
  IF \E n \in TaskNames :
        tasks[n].Status \in {StatusFailed, StatusUpstreamFailed, StatusSkipped}
  THEN StatusFailed
  ELSE StatusSuccess

\* the aggregate status computed at the end of Execute
AggregateStatus ==
  IF \E n \in TaskNames :
        tasks[n].Status \in {StatusFailed, StatusUpstreamFailed}
  THEN StatusFailed
  ELSE StatusSuccess

\* mutant: the semaphore is never created
UsesSemNever == FALSE

\* the semaphore is used only by executeDAG and only if Concurrency > 0
UsesSem == opts.TaskName = "" /\ opts.Concurrency > 0

SetTask(n, f, v) == [tasks EXCEPT ![n] = [@ EXCEPT ![f] = v]]

(* ---------------------------------------------------------------------- *)
(* Initial state: Execute has built the Run from the config                *)
(* ---------------------------------------------------------------------- *)

Init ==
  /\ \E g \in DOMAIN DAGs, r \in RetriesChoices, dl \in DelayChoices :
       tasks = [n \in TaskNames |->
                  [Status     |-> StatusPending,
                   DependsOn  |-> DAGs[g][n],
                   Attempt    |-> 0,
                   MaxRetries |-> r[n],
                   RetryDelay |-> IF n \in dl THEN 1 ELSE 0,
                   Error      |-> NoError]]
  /\ \E tn \in {""} \cup TaskNames \cup {NoSuchTask}, c \in 0 .. MaxConcurrency :
       opts = [TaskName |-> tn, Concurrency |-> c]
  /\ ctxErr = "none"
  /\ pc = "start"
  /\ levels = <<>>
  /\ li = 1
  /\ di = 1
  /\ statusMap = [n \in TaskNames |-> StatusPending]
  /\ tpc = [n \in TaskNames |-> "idle"]
  /\ attempt = [n \in TaskNames |-> 0]
  /\ sem = 0
  /\ runStatus = StatusRunning
  /\ invocations = [n \in TaskNames |-> 0]
  /\ results = [n \in TaskNames |-> <<>>]
  /\ cancelInfo = [level |-> 0, mode |-> "none", sleepers |-> {},
                   invocations |-> [n \in TaskNames |-> 0]]
  /\ execErr = NilError
  /\ ServeIdle
  /\ SDKIdle
  /\ WatchIdle
  /\ TopoIdle
  /\ RunIDIdle
  /\ SecretsIdle
  /\ PrefixIdle
  /\ ScriptIdle
  /\ CronIdle
  /\ StableIdle

(* ---------------------------------------------------------------------- *)
(* Execute: single-task mode, topoSort, aggregate status                   *)
(* ---------------------------------------------------------------------- *)

\* Execute before the Run is built: Snapshot, copyDirContents, secrets.Load
\* or sdk.NewServer returns an error and Execute returns it
ExecuteSetupFails(e) ==
  /\ pc = "start"
  /\ pc' = "error"
  /\ execErr' = e
  /\ UNCHANGED <<tasks, opts, ctxErr, levels, li, di, statusMap, tpc, attempt,
                 sem, runStatus, invocations, results, cancelInfo>>
  /\ UNCHANGED outsideEngine

\* Execute, single-task mode: the selected task is made pending and every
\* other skipped; an unknown name is an error; else executeTask is called
SingleTaskSelect ==
  /\ pc = "start"
  /\ opts.TaskName # ""
  /\ IF opts.TaskName \in TaskNames
     THEN /\ tasks' = [n \in TaskNames |->
                         [tasks[n] EXCEPT !.Status = SingleTaskStatus(n)]]
          /\ tpc' = [tpc EXCEPT ![opts.TaskName] = "exec"]
          /\ pc' = "single"
          /\ execErr' = execErr
     ELSE /\ tasks' = [n \in TaskNames |->
                         [tasks[n] EXCEPT !.Status = SingleTaskStatus(n)]]
          /\ pc' = "error"
          /\ execErr' = TaskNotFoundError
          /\ tpc' = tpc
  /\ UNCHANGED <<opts, ctxErr, levels, li, di, statusMap, attempt, sem,
                 runStatus, invocations, results, cancelInfo>>
  /\ UNCHANGED outsideEngine

\* Execute, full DAG: levels, err := topoSort(run.Tasks)
TopoSortDAG ==
  /\ pc = "start"
  /\ opts.TaskName = ""
  /\ LET r == topoSort([n \in TaskNames |-> tasks[n].DependsOn])
     IN IF r.err
        THEN pc' = "error" /\ levels' = levels /\ execErr' = CycleError
        ELSE pc' = "levelLoop" /\ levels' = r.levels /\ execErr' = execErr
  /\ li' = 1
  /\ UNCHANGED <<tasks, opts, ctxErr, di, statusMap, tpc, attempt, sem,
                 runStatus, invocations, results, cancelInfo>>
  /\ UNCHANGED outsideEngine

\* Execute after the tasks: run.Status is derived and the Run returned
Aggregate ==
  /\ \/ pc = "levelLoop" /\ li > Len(levels)
     \/ pc = "single" /\ tpc[opts.TaskName] = "done"
  /\ runStatus' = AggregateStatus
  /\ pc' = "returned"
  /\ execErr' = ReturnedError(runStatus')
  /\ UNCHANGED <<tasks, opts, ctxErr, levels, li, di, statusMap, tpc, attempt,
                 sem, invocations, results, cancelInfo>>
  /\ UNCHANGED outsideEngine

(* ---------------------------------------------------------------------- *)
(* executeDAG                                                              *)
(* ---------------------------------------------------------------------- *)

\* a level is reached with a done context: its pending tasks are failed
LevelCancelled ==
  /\ pc = "levelLoop"
  /\ li <= Len(levels)
  /\ CtxDone
  /\ LET level == levels[li]
         inLevel == {level[i] : i \in DOMAIN level}
     IN tasks' = [n \in TaskNames |->
                    IF n \in inLevel /\ CancelledStatus(tasks[n].Status) # tasks[n].Status
                    THEN [tasks[n] EXCEPT !.Status = CancelledStatus(tasks[n].Status),
                                          !.Error = CtxError(ctxErr)]
                    ELSE tasks[n]]
  /\ li' = li + 1
  /\ UNCHANGED <<opts, ctxErr, pc, levels, di, statusMap, tpc, attempt, sem,
                 runStatus, invocations, results, cancelInfo>>
  /\ UNCHANGED execErr
  /\ UNCHANGED outsideEngine

\* the status snapshot of the level is built
LevelSnapshot ==
  /\ pc = "levelLoop"
  /\ li <= Len(levels)
  /\ ~CtxDone
  /\ statusMap' = [n \in TaskNames |-> tasks[n].Status]
  /\ di' = 1
  /\ pc' = "dispatch"
  /\ UNCHANGED <<tasks, opts, ctxErr, levels, li, tpc, attempt, sem, runStatus,
                 invocations, results, cancelInfo>>
  /\ UNCHANGED execErr
  /\ UNCHANGED outsideEngine

\* one iteration of the dispatch loop: upstream_failed, or a goroutine
Dispatch ==
  /\ pc = "dispatch"
  /\ LET level == levels[li]
         ti == level[di]
     IN /\ IF hasUpstreamFailure(ti, statusMap)
           THEN /\ tasks' = SetTask(ti, "Status", StatusUpstreamFailed)
                /\ tpc' = tpc
           ELSE /\ tpc' = [tpc EXCEPT ![ti] = "spawned"]
                /\ tasks' = tasks
        /\ IF di < Len(level)
           THEN di' = di + 1 /\ pc' = pc
           ELSE di' = di /\ pc' = "wait"
  /\ UNCHANGED <<opts, ctxErr, levels, li, statusMap, attempt, sem, runStatus,
                 invocations, results, cancelInfo>>
  /\ UNCHANGED execErr
  /\ UNCHANGED outsideEngine

\* wg.Wait() returns and the loop moves to the next level
LevelWait ==
  /\ pc = "wait"
  /\ LevelFinished(levels[li])
  /\ li' = li + 1
  /\ pc' = "levelLoop"
  /\ UNCHANGED <<tasks, opts, ctxErr, levels, di, statusMap, tpc, attempt, sem,
                 runStatus, invocations, results, cancelInfo>>
  /\ UNCHANGED execErr
  /\ UNCHANGED outsideEngine

\* the goroutine of a dispatched task takes a semaphore slot (if any)
Acquire(t) ==
  /\ tpc[t] = "spawned"
  /\ IF UsesSem
     THEN sem < opts.Concurrency /\ sem' = sem + 1
     ELSE sem' = sem
  /\ tpc' = [tpc EXCEPT ![t] = "exec"]
  /\ UNCHANGED <<tasks, opts, ctxErr, pc, levels, li, di, statusMap, attempt,
                 runStatus, invocations, results, cancelInfo>>
  /\ UNCHANGED execErr
  /\ UNCHANGED outsideEngine

\* mutant: the slot is kept when the goroutine ends
SlotsAfterReleaseKept(n) == n

\* defer func() { <-sem }()
SlotsAfterRelease(n) == n - 1

\* executeTask has returned: deferred slot release and wg.Done
Release(t) ==
  /\ tpc[t] = "exit"
  /\ sem' = IF UsesSem THEN SlotsAfterRelease(sem) ELSE sem
  /\ tpc' = [tpc EXCEPT ![t] = "done"]
  /\ UNCHANGED <<tasks, opts, ctxErr, pc, levels, li, di, statusMap, attempt,
                 runStatus, invocations, results, cancelInfo>>
  /\ UNCHANGED execErr
  /\ UNCHANGED outsideEngine

(* ---------------------------------------------------------------------- *)
(* executeTask                                                             *)
(* ---------------------------------------------------------------------- *)

\* ti.Status = StatusRunning
Begin(t) ==
  /\ tpc[t] = "exec"
  /\ tasks' = SetTask(t, "Status", StatusRunning)
  /\ tpc' = [tpc EXCEPT ![t] = "setup"]
  /\ UNCHANGED <<opts, ctxErr, pc, levels, li, di, statusMap, attempt, sem,
                 runStatus, invocations, results, cancelInfo>>
  /\ UNCHANGED execErr
  /\ UNCHANGED outsideEngine

\* runner resolution, dbt profiles, log file or script validation fails
SetupFail(t) ==
  /\ tpc[t] = "setup"
  /\ tasks' = [tasks EXCEPT ![t] = [@ EXCEPT !.Status = StatusFailed,
                                            !.Error = SetupError]]
  /\ tpc' = [tpc EXCEPT ![t] = "exit"]
  /\ UNCHANGED <<opts, ctxErr, pc, levels, li, di, statusMap, attempt, sem,
                 runStatus, invocations, results, cancelInfo>>
  /\ UNCHANGED execErr
  /\ UNCHANGED outsideEngine

\* setup succeeds: for attempt := 1; ...
SetupOk(t) ==
  /\ tpc[t] = "setup"
  /\ attempt' = [attempt EXCEPT ![t] = 1]
  /\ tpc' = [tpc EXCEPT ![t] = "loop"]
  /\ UNCHANGED <<tasks, opts, ctxErr, pc, levels, li, di, statusMap, sem,
                 runStatus, invocations, results, cancelInfo>>
  /\ UNCHANGED execErr
  /\ UNCHANGED outsideEngine

\* loop condition attempt <= maxAttempts; then ti.Attempt = attempt.
\* After the loop: ti.Status = StatusFailed (the error is the last one set)
LoopHead(t) ==
  /\ tpc[t] = "loop"
  /\ IF attempt[t] <= maxAttempts(t)
     THEN /\ tasks' = SetTask(t, "Attempt", attempt[t])
          /\ tpc' = [tpc EXCEPT ![t] = "check"]
     ELSE /\ tasks' = SetTask(t, "Status", StatusFailed)
          /\ tpc' = [tpc EXCEPT ![t] = "exit"]
  /\ UNCHANGED <<opts, ctxErr, pc, levels, li, di, statusMap, attempt, sem,
                 runStatus, invocations, results, cancelInfo>>
  /\ UNCHANGED execErr
  /\ UNCHANGED outsideEngine

\* mutant: the supervisor does not look at the context before an attempt
AttemptCancelledNever == FALSE

\* the check before each attempt: ctx.Err() != nil
AttemptCancelled == CtxDone

\* if ctx.Err() != nil: failed with the context error; else r.Run is called
CheckCtx(t) ==
  /\ tpc[t] = "check"
  /\ IF AttemptCancelled
     THEN /\ tasks' = [tasks EXCEPT ![t] = [@ EXCEPT !.Status = StatusFailed,
                                                    !.Error = CtxError(ctxErr)]]
          /\ tpc' = [tpc EXCEPT ![t] = "exit"]
          /\ invocations' = invocations
     ELSE /\ tpc' = [tpc EXCEPT ![t] = "run"]
          /\ invocations' = [invocations EXCEPT ![t] = @ + 1]
          /\ tasks' = tasks
  /\ UNCHANGED <<opts, ctxErr, pc, levels, li, di, statusMap, attempt, sem,
                 runStatus, results, cancelInfo>>
  /\ UNCHANGED execErr
  /\ UNCHANGED outsideEngine

\* r.Run returns nil: success
RunSucceeds(t) ==
  /\ tpc[t] = "run"
  /\ tasks' = SetTask(t, "Status", StatusSuccess)
  /\ tpc' = [tpc EXCEPT ![t] = "exit"]
  /\ results' = [results EXCEPT ![t] = Append(@, TRUE)]
  /\ UNCHANGED <<opts, ctxErr, pc, levels, li, di, statusMap, attempt, sem,
                 runStatus, invocations, cancelInfo>>
  /\ UNCHANGED execErr
  /\ UNCHANGED outsideEngine

\* r.Run returns an error: it is recorded; sleep if another attempt follows
\* and retry_delay > 0, else attempt++
RunFails(t) ==
  /\ tpc[t] = "run"
  /\ tasks' = SetTask(t, "Error", RunError(attempt[t]))
  /\ IF attempt[t] < maxAttempts(t) /\ tasks[t].RetryDelay > 0
     THEN /\ tpc' = [tpc EXCEPT ![t] = "sleep"]
          /\ attempt' = attempt
     ELSE /\ tpc' = [tpc EXCEPT ![t] = "loop"]
          /\ attempt' = [attempt EXCEPT ![t] = @ + 1]
  /\ results' = [results EXCEPT ![t] = Append(@, FALSE)]
  /\ UNCHANGED <<opts, ctxErr, pc, levels, li, di, statusMap, sem, runStatus,
                 invocations, cancelInfo>>
  /\ UNCHANGED execErr
  /\ UNCHANGED outsideEngine

\* select: case <-time.After(ti.RetryDelay)
SleepElapses(t) ==
  /\ tpc[t] = "sleep"
  /\ tpc' = [tpc EXCEPT ![t] = "loop"]
  /\ attempt' = [attempt EXCEPT ![t] = @ + 1]
  /\ UNCHANGED <<tasks, opts, ctxErr, pc, levels, li, di, statusMap, sem,
                 runStatus, invocations, results, cancelInfo>>
  /\ UNCHANGED execErr
  /\ UNCHANGED outsideEngine

\* select: case <-ctx.Done()
SleepCancelled(t) ==
  /\ tpc[t] = "sleep"
  /\ CtxDone
  /\ tasks' = [tasks EXCEPT ![t] = [@ EXCEPT !.Status = StatusFailed,
                                            !.Error = CtxError(ctxErr)]]
  /\ tpc' = [tpc EXCEPT ![t] = "exit"]
  /\ UNCHANGED <<opts, ctxErr, pc, levels, li, di, statusMap, attempt, sem,
                 runStatus, invocations, results, cancelInfo>>
  /\ UNCHANGED execErr
  /\ UNCHANGED outsideEngine

(* ---------------------------------------------------------------------- *)
(* The environment: the run context becomes done                           *)
(* ---------------------------------------------------------------------- *)

\* the caller cancels ctx, or the DAG-level timeout expires
Cancel ==
  /\ ctxErr = "none"
  /\ pc \notin {"returned", "error"}
  /\ \E e \in {"canceled", "deadline"} : ctxErr' = e
  /\ cancelInfo' = [level |-> li,
                    mode |-> pc,
                    sleepers |-> {n \in TaskNames : tpc[n] = "sleep"},
                    invocations |-> invocations]
  /\ UNCHANGED <<tasks, opts, pc, levels, li, di, statusMap, tpc, attempt, sem,
                 runStatus, invocations, results>>
  /\ UNCHANGED execErr
  /\ UNCHANGED outsideEngine

Next ==
  \/ \E e \in SetupErrors : ExecuteSetupFails(e)
  \/ SingleTaskSelect
  \/ TopoSortDAG
  \/ Aggregate
  \/ LevelCancelled
  \/ LevelSnapshot
  \/ Dispatch
  \/ LevelWait
  \/ Cancel
  \/ \E t \in TaskNames :
       \/ Acquire(t)
       \/ Release(t)
       \/ Begin(t)
       \/ SetupFail(t)
       \/ SetupOk(t)
       \/ LoopHead(t)
       \/ CheckCtx(t)
       \/ RunSucceeds(t)
       \/ RunFails(t)
       \/ SleepElapses(t)
       \/ SleepCancelled(t)

Spec == Init /\ [][Next]_vars

TypeOK ==
  /\ \A n \in TaskNames :
       tasks[n].Status \in Terminal \cup {StatusPending, StatusRunning}
  /\ ctxErr \in {"none", "canceled", "deadline"}
  /\ sem \in 0 .. MaxConcurrency

(* ---------------------------------------------------------------------- *)
(* Properties of the engine                                                *)
(* ---------------------------------------------------------------------- *)

Deps(t) == {tasks[t].DependsOn[i] : i \in DOMAIN tasks[t].DependsOn}

FailedDeps(t) ==
  {d \in Deps(t) : tasks[d].Status \in {StatusFailed, StatusUpstreamFailed}}

\* the index of the level a task is in (0 before topoSort)
LevelOf(t) ==
  IF \E i \in DOMAIN levels : \E j \in DOMAIN levels[i] : levels[i][j] = t
  THEN CHOOSE i \in DOMAIN levels : \E j \in DOMAIN levels[i] : levels[i][j] = t
  ELSE 0

\* the supervisor of t has returned
Supervised(t) == tpc[t] \in {"exit", "done"}

\* t was failed by executeDAG at a level reached with a done context:
\* never dispatched, never run
FailedAtCancelledLevel(t) ==
  /\ tasks[t].Status = StatusFailed
  /\ ctxErr # "none"
  /\ tasks[t].Error = CtxError(ctxErr)
  /\ tpc[t] = "idle"
  /\ tasks[t].Attempt = 0
  /\ invocations[t] = 0

\* C1: a task enters status running only when every declared dependency
\* already has a terminal status.
C1_StartsAfterDependencies ==
  [][\A t \in TaskNames :
       (tasks[t].Status # StatusRunning /\ tasks'[t].Status = StatusRunning)
         => \A d \in Deps(t) : tasks[d].Status \in Terminal]_vars

\* C1 witness: in a full-DAG run a task with dependencies is running.
C1_Witness ==
  \E t \in TaskNames :
     /\ opts.TaskName = ""
     /\ tasks[t].Status = StatusRunning
     /\ Deps(t) # {}

C3_UpstreamFailedOnlyWithFailedDep ==
  [][\A t \in TaskNames :
       (tasks[t].Status # StatusUpstreamFailed
          /\ tasks'[t].Status = StatusUpstreamFailed)
         => FailedDeps(t) # {}]_vars

\* C3 witness: a failure elsewhere, a task marked upstream_failed, and an
\* independent task that ran to success after the failure's level.
C3_Witness ==
  \E f, u, s \in TaskNames :
     /\ tasks[f].Status = StatusFailed
     /\ f \in Deps(u)
     /\ tasks[u].Status = StatusUpstreamFailed
     /\ f \notin Deps(s)
     /\ LevelOf(s) > LevelOf(f)
     /\ tasks[s].Status = StatusSuccess

\* C4: when Execute returns a Run, every task has a terminal status.
C4_AllTerminalAtReturn ==
  pc = "returned" => \A t \in TaskNames : tasks[t].Status \in Terminal

\* C4 witness: a run returned after a cancellation that left a level
\* undispatched.
C4_Witness ==
  /\ pc = "returned"
  /\ \E t, u \in TaskNames :
        /\ FailedAtCancelledLevel(t)
        /\ tasks[u].Status = StatusSuccess

\* C5: the returned run status is success exactly when every non-skipped
\* task is success, failed exactly when some task is failed or
\* upstream_failed, and nothing else.
C5_AggregateStatus ==
  pc = "returned" =>
    /\ runStatus \in {StatusSuccess, StatusFailed}
    /\ runStatus = StatusSuccess <=>
         \A t \in TaskNames :
            tasks[t].Status # StatusSkipped => tasks[t].Status = StatusSuccess
    /\ runStatus = StatusFailed <=>
         \E t \in TaskNames :
            tasks[t].Status \in {StatusFailed, StatusUpstreamFailed}

\* C5 witness: a successful single-task run (three tasks skipped).
C5_Witness ==
  /\ pc = "returned"
  /\ runStatus = StatusSuccess
  /\ \E t \in TaskNames : tasks[t].Status = StatusSkipped

\* the status changes of the state machine of the task supervisor
StateMachinePaths ==
  { <<StatusPending, StatusUpstreamFailed>>,
    <<StatusPending, StatusRunning>>,
    <<StatusRunning, StatusSuccess>>,
    <<StatusRunning, StatusFailed>>,
    <<StatusPending, StatusSkipped>> }

C7_AttemptBound ==
  \A t \in TaskNames :
     /\ tasks[t].Attempt <= tasks[t].MaxRetries + 1
     /\ invocations[t] <= tasks[t].MaxRetries + 1

\* C7 witness: a task with retries has used all its attempts.
C7_Witness ==
  \E t \in TaskNames :
     /\ tasks[t].MaxRetries >= 1
     /\ tasks[t].Attempt = tasks[t].MaxRetries + 1
     /\ invocations[t] = tasks[t].MaxRetries + 1
     /\ tasks[t].Status = StatusFailed

\* the index of the first runner call of t that returned nil (0 if none)
FirstSuccess(t) ==
  IF \E i \in DOMAIN results[t] : results[t][i]
  THEN CHOOSE i \in DOMAIN results[t] :
         results[t][i] /\ \A j \in 1 .. (i - 1) : ~results[t][j]
  ELSE 0

\* the outcome C8 describes for a supervised task
RetryOutcome(t) ==
  IF FirstSuccess(t) > 0
  THEN /\ invocations[t] = FirstSuccess(t)
       /\ tasks[t].Status = StatusSuccess
       /\ tasks[t].Attempt = FirstSuccess(t)
  ELSE /\ invocations[t] = tasks[t].MaxRetries + 1
       /\ tasks[t].Status = StatusFailed
       /\ tasks[t].Error = RunError(tasks[t].MaxRetries + 1)
       /\ tasks[t].Attempt = tasks[t].MaxRetries + 1

\* C8 as stated: with the context never cancelled, every dispatched task
\* ends with the retry outcome.
C8_Original ==
  \A t \in TaskNames :
     (Supervised(t) /\ ctxErr = "none") => RetryOutcome(t)

\* C8 amended: with the context never cancelled, every dispatched task whose
\* setup succeeds (runner resolved, log file created, script path valid)
\* ends with the retry outcome; a dispatched task whose setup fails ends
\* failed without any runner invocation and with attempt 0.
C8_Amended ==
  \A t \in TaskNames :
     (Supervised(t) /\ ctxErr = "none") =>
        IF tasks[t].Error = SetupError
        THEN /\ tasks[t].Status = StatusFailed
             /\ invocations[t] = 0
             /\ tasks[t].Attempt = 0
        ELSE RetryOutcome(t)

\* C8 witness: retry to success at the second attempt, no cancellation.
C8_Witness ==
  \E t \in TaskNames :
     /\ Supervised(t)
     /\ ctxErr = "none"
     /\ results[t] = <<FALSE, TRUE>>
     /\ tasks[t].Status = StatusSuccess

\* C9 as stated: a supervisor that finds the context done returns without
\* incrementing the attempt counter, so once the supervisor has returned the
\* attempt counter equals the number of runner invocations.
C9_AttemptCountsInvocations ==
  \A t \in TaskNames :
     Supervised(t) => tasks[t].Attempt = invocations[t]

\* C10: if the context is cancelled while a task sleeps in retry_delay, that
\* task ends failed with the cancellation error without another runner
\* invocation, and every task of a later level is never started and ends
\* failed with the same error.
C10_CancelDuringRetryDelay ==
  cancelInfo.sleepers # {} =>
    /\ \A t \in cancelInfo.sleepers :
          /\ invocations[t] = cancelInfo.invocations[t]
          /\ Supervised(t) =>
               /\ tasks[t].Status = StatusFailed
               /\ tasks[t].Error = CtxError(ctxErr)
          /\ pc = "returned" => Supervised(t)
    /\ \A u \in TaskNames :
          LevelOf(u) > cancelInfo.level =>
            /\ tpc[u] = "idle"
            /\ invocations[u] = 0
            /\ tasks[u].Status \in {StatusPending, StatusFailed}
            /\ tasks[u].Status = StatusFailed =>
                 tasks[u].Error = CtxError(ctxErr)
            /\ pc = "returned" => tasks[u].Status = StatusFailed

\* C10 witness: a returned run that was cancelled during a retry sleep and
\* had a later level still to go, one of whose tasks depends on the sleeper.
C10_Witness ==
  /\ pc = "returned"
  /\ \E t \in cancelInfo.sleepers, u \in TaskNames :
        /\ LevelOf(u) > cancelInfo.level
        /\ t \in Deps(u)
        /\ tasks[u].Status = StatusFailed

\* the tasks in status running
RunningTasks == {t \in TaskNames : tasks[t].Status = StatusRunning}

\* the tasks whose runner invocation is in progress
InRunner == {t \in TaskNames : tpc[t] = "run"}

\* C11: with a concurrency limit c > 0, at most c tasks are in status running
\* and at most c runner invocations are in progress at any time (so with
\* c = 1 the tasks of a level run one after another).
C11_ConcurrencyLimit ==
  opts.Concurrency > 0 =>
    /\ Cardinality(RunningTasks) <= opts.Concurrency
    /\ Cardinality(InRunner) <= opts.Concurrency

\* C11 witness: the limit is 1, one task of a level is in its runner and
\* another task of the same level waits for the slot.
C11_Witness ==
  /\ opts.Concurrency = 1
  /\ \E t, u \in TaskNames :
        /\ tpc[t] = "run"
        /\ tpc[u] = "spawned"
        /\ LevelOf(t) = LevelOf(u)

\* with c = 0 two tasks of a level are running at the same time (no cap)
C11_NoCapReached ==
  /\ opts.Concurrency = 0
  /\ Cardinality(RunningTasks) >= 2

\* the steps of Execute and of the task goroutines (every step but the
\* cancellation of the context by the caller)
Progress ==
  \/ \E e \in SetupErrors : ExecuteSetupFails(e)
  \/ SingleTaskSelect
  \/ TopoSortDAG
  \/ Aggregate
  \/ LevelCancelled
  \/ LevelSnapshot
  \/ Dispatch
  \/ LevelWait
  \/ \E t \in TaskNames :
       \/ Acquire(t)
       \/ Release(t)
       \/ Begin(t)
       \/ SetupFail(t)
       \/ SetupOk(t)
       \/ LoopHead(t)
       \/ CheckCtx(t)
       \/ RunSucceeds(t)
       \/ RunFails(t)
       \/ SleepElapses(t)
       \/ SleepCancelled(t)

\* the runs whose termination is followed: every DAG, every concurrency
\* limit and retry delay, retries on a or on b and d, the full DAG or the
\* single task a or an unknown task
InitLive ==
  /\ Init
  /\ {n \in TaskNames : tasks[n].MaxRetries > 0} \in {{}, {"a"}, {"b", "d"}}
  /\ opts.TaskName \in {"", "a", NoSuchTask}

\* a goroutine that can take a step takes one; a runner call returns and a
\* retry delay elapses
SpecLive == InitLive /\ [][Next]_vars /\ WF_vars(Progress)

\* the tasks whose goroutine holds a semaphore slot
SlotHolders ==
  {t \in TaskNames : tpc[t] \notin {"idle", "spawned", "done"}}

\* the slots taken are those of the goroutines between acquire and release,
\* never more than the limit, and none at a level boundary; at the end no
\* goroutine is left waiting for a slot or holding one
SlotsAccounted ==
  /\ UsesSem => sem = Cardinality(SlotHolders) /\ sem <= opts.Concurrency
  /\ ~UsesSem => sem = 0
  /\ pc \in {"levelLoop", "returned"} =>
       /\ sem = 0
       /\ \A t \in TaskNames : tpc[t] \in {"idle", "done"}

\* Execute has returned
Terminated == pc = "returned" \/ execErr # NilError

\* C32: with every runner call returning, Execute terminates for every DAG
\* and every concurrency limit >= 0: every dispatched task has got a slot
\* and released it when its level wait returns, all slots are free at each
\* level boundary, and Execute returns
C32_Terminates == [](SlotsAccounted) /\ <>Terminated

\* C32 witness: with a limit of one slot a task waits for the slot that
\* another task of its level holds in its runner
C32_Witness ==
  /\ opts.TaskName = ""
  /\ opts.Concurrency = 1
  /\ sem = 1
  /\ \E t, u \in TaskNames :
       /\ t # u
       /\ tpc[t] = "spawned"
       /\ tpc[u] = "run"

\* level i of a full-DAG run is reached by executeDAG after the context
\* became done
ReachedAfterDone(i) ==
  /\ CtxDone
  /\ opts.TaskName = ""
  /\ \/ i > cancelInfo.level
     \/ i = cancelInfo.level /\ cancelInfo.mode \in {"start", "levelLoop"}

\* the supervisor of t found the context done at the check before an attempt
StoppedAtAttempt(t) ==
  /\ Supervised(t)
  /\ t \notin cancelInfo.sleepers
  /\ tasks[t].Status = StatusFailed
  /\ tasks[t].Error = CtxError(ctxErr)
  /\ tasks[t].Attempt > invocations[t]

C34_SingleTaskMode ==
  (opts.TaskName \in TaskNames /\ pc \in {"single", "returned"}) =>
    /\ tpc[opts.TaskName] # "idle"
    /\ levels = <<>>
    /\ \A n \in TaskNames \ {opts.TaskName} :
          /\ tasks[n].Status = StatusSkipped
          /\ tpc[n] = "idle"
          /\ invocations[n] = 0
          /\ tasks[n].Attempt = 0
    /\ pc = "returned" =>
          /\ tpc[opts.TaskName] = "done"
          /\ tasks[opts.TaskName].Status \in {StatusSuccess, StatusFailed}
          /\ runStatus = StatusSuccess <=>
                tasks[opts.TaskName].Status = StatusSuccess

\* C34 witness: a returned single-task run whose selected task succeeded
\* although it declares a dependency, which was skipped.
C34_Witness ==
  /\ pc = "returned"
  /\ opts.TaskName \in TaskNames
  /\ Deps(opts.TaskName) # {}
  /\ tasks[opts.TaskName].Status = StatusSuccess
  /\ runStatus = StatusSuccess
  /\ \A d \in Deps(opts.TaskName) : tasks[d].Status = StatusSkipped

(* ====================================================================== *)
(* The scheduler: serve.Server.Start and handleEvent                       *)
(* ====================================================================== *)

\* largest number of events the triggers send in one behaviour
MaxEvents == 2

\* capacity of the event channel that is enumerated (the code makes 64)
EventChCap == 1

\* the DAGs of the workspace (s.configs)
DAGNames == {"d1", "d2"}

\* s.triggers: d1 has an ftp_watch, d2 a schedule
Triggers ==
  { [dag |-> "d1", source |-> "ftp_watch"],
    [dag |-> "d2", source |-> "cron"] }

\* the values of dag.overlap that are enumerated ("" is unset)
OverlapValues == {"skip", "allow", ""}

\* overlap := cfg.DAG.Overlap; if overlap == "" { overlap = "allow" }
EffectiveOverlap(d) == IF overlapCfg[d] = "" THEN "allow" ELSE overlapCfg[d]

\* mutant: the overlap policy is not looked at
SkipsEventNever(isActive, overlap) == FALSE

\* if isActive && overlap == "skip": the event is dropped
SkipsEvent(isActive, overlap) == isActive /\ overlap = "skip"

\* socketHint: the socket path holds the process id only, so on Unix every
\* run of the process gets the same address (0); on Windows the listener is
\* a TCP port assigned by the OS, one per run
SocketAddr(i) == IF goos = "windows" THEN i ELSE 0

\* the run whose service a connection to the address of run i reaches
\* (0: nothing listens there)
ServiceAt(i) ==
  IF goos = "windows"
  THEN IF runs[i].listening THEN i ELSE 0
  ELSE IF sockOwner # 0 /\ runs[sockOwner].listening THEN sockOwner ELSE 0

\* listen(): os.Remove(socketPath); net.Listen("unix", socketPath)
SockOwnerAfterListen(i) == IF goos = "windows" THEN sockOwner ELSE i

\* Shutdown: listener.Close() and os.Remove(s.socketPath) unlink whatever
\* file is at the path
SockOwnerAfterShutdown(i) == IF goos = "windows" THEN sockOwner ELSE 0

\* the goroutine of run r moves on to phase p (hist: the phases it has
\* been through, kept until the goroutine ends)
Enter(r, p) == [r EXCEPT !.phase = p, !.hist = Append(@, p)]

\* seedDir, err = s.downloadFTPFiles(ev); if err != nil { log; return }
PrefetchFailPhase == "clear"

\* mutant: the files are archived whatever the status of the run
ArchivesFilesAnyStatus(source, status) == source = "ftp_watch"

\* if ev.Source == "ftp_watch" && run.Status == engine.StatusSuccess
ArchivesFiles(source, status) ==
  source = "ftp_watch" /\ status = StatusSuccess

\* mutant: the run goroutine leaves the flag set
ActiveAfterClearKept(d) == activeRuns

\* deferred in the run goroutine: s.activeRuns[ev.DAGName] = false
ActiveAfterClear(d) == [activeRuns EXCEPT ![d] = FALSE]

InitServe ==
  /\ overlapCfg \in [DAGNames -> OverlapValues]
  /\ goos \in {"linux", "windows"}
  /\ srvCtxDone = FALSE
  /\ eventCh = <<>>
  /\ trig = [t \in Triggers |-> "running"]
  /\ fired = 0
  /\ loopPc = "select"
  /\ curEv = <<>>
  /\ activeRuns = [d \in DAGNames |-> FALSE]
  /\ runWg = 0
  /\ startPc = "serving"
  /\ runs = <<>>
  /\ sockOwner = 0
  /\ served = {}
  /\ EngineIdle
  /\ SDKIdle
  /\ WatchIdle
  /\ TopoIdle
  /\ RunIDIdle
  /\ SecretsIdle
  /\ PrefixIdle
  /\ ScriptIdle
  /\ CronIdle
  /\ StableIdle

\* the caller cancels the context of Start (signal)
ServeCancel ==
  /\ ~srvCtxDone
  /\ srvCtxDone' = TRUE
  /\ UNCHANGED <<overlapCfg, goos, eventCh, trig, fired, loopPc, curEv,
                 activeRuns, runWg, startPc, runs, sockOwner, served>>
  /\ UNCHANGED outsideServe

\* a trigger fires: select { case events <- Event{...}: case <-ctx.Done(): }
TriggerFire(t) ==
  /\ trig[t] = "running"
  /\ fired < MaxEvents
  /\ Len(eventCh) < EventChCap
  /\ eventCh' = Append(eventCh, t)
  /\ fired' = fired + 1
  /\ UNCHANGED <<overlapCfg, goos, srvCtxDone, trig, loopPc, curEv, activeRuns,
                 runWg, startPc, runs, sockOwner, served>>
  /\ UNCHANGED outsideServe

\* trig.Start returns once triggerCtx is done; triggerWg.Done
TriggerReturn(t) ==
  /\ trig[t] = "running"
  /\ srvCtxDone
  /\ trig' = [trig EXCEPT ![t] = "returned"]
  /\ UNCHANGED <<overlapCfg, goos, srvCtxDone, eventCh, fired, loopPc, curEv,
                 activeRuns, runWg, startPc, runs, sockOwner, served>>
  /\ UNCHANGED outsideServe

\* event loop: case <-ctx.Done(): return
LoopExit ==
  /\ loopPc = "select"
  /\ srvCtxDone
  /\ loopPc' = "exited"
  /\ UNCHANGED <<overlapCfg, goos, srvCtxDone, eventCh, trig, fired, curEv,
                 activeRuns, runWg, startPc, runs, sockOwner, served>>
  /\ UNCHANGED outsideServe

\* event loop: case ev := <-s.eventCh (select may take it also when the
\* context is done)
LoopReceive ==
  /\ loopPc = "select"
  /\ eventCh # <<>>
  /\ curEv' = Head(eventCh)
  /\ eventCh' = Tail(eventCh)
  /\ loopPc' = "handle"
  /\ UNCHANGED <<overlapCfg, goos, srvCtxDone, trig, fired, activeRuns, runWg,
                 startPc, runs, sockOwner, served>>
  /\ UNCHANGED outsideServe

\* handleEvent, under s.mu: the event is skipped
HandleSkip ==
  /\ loopPc = "handle"
  /\ SkipsEvent(activeRuns[curEv.dag], EffectiveOverlap(curEv.dag))
  /\ loopPc' = "select"
  /\ curEv' = <<>>
  /\ UNCHANGED <<overlapCfg, goos, srvCtxDone, eventCh, trig, fired,
                 activeRuns, runWg, startPc, runs, sockOwner, served>>
  /\ UNCHANGED outsideServe

\* handleEvent, under s.mu: s.activeRuns[ev.DAGName] = true
HandleAccept ==
  /\ loopPc = "handle"
  /\ ~SkipsEvent(activeRuns[curEv.dag], EffectiveOverlap(curEv.dag))
  /\ activeRuns' = [activeRuns EXCEPT ![curEv.dag] = TRUE]
  /\ loopPc' = "launch"
  /\ UNCHANGED <<overlapCfg, goos, srvCtxDone, eventCh, trig, fired, curEv,
                 runWg, startPc, runs, sockOwner, served>>
  /\ UNCHANGED outsideServe

\* handleEvent: wg.Add(1); go func() {...}()
HandleLaunch ==
  /\ loopPc = "launch"
  /\ runWg' = runWg + 1
  /\ runs' = Append(runs,
               [dag |-> curEv.dag, source |-> curEv.source,
                phase |-> IF curEv.source = "ftp_watch" THEN "prefetch"
                          ELSE "execute",
                hist |-> <<IF curEv.source = "ftp_watch" THEN "prefetch"
                           ELSE "execute">>,
                fetch |-> "none",
                status |-> "none", listening |-> FALSE,
                late |-> startPc \in {"runWait", "returned"}])
  /\ loopPc' = "select"
  /\ curEv' = <<>>
  /\ UNCHANGED <<overlapCfg, goos, srvCtxDone, eventCh, trig, fired,
                 activeRuns, startPc, sockOwner, served>>
  /\ UNCHANGED outsideServe

\* Start: <-ctx.Done(); triggerCancel()
StartShutdown ==
  /\ startPc = "serving"
  /\ srvCtxDone
  /\ startPc' = "triggerWait"
  /\ UNCHANGED <<overlapCfg, goos, srvCtxDone, eventCh, trig, fired, loopPc,
                 curEv, activeRuns, runWg, runs, sockOwner, served>>
  /\ UNCHANGED outsideServe

\* Start: triggerWg.Wait() returns
StartTriggersDone ==
  /\ startPc = "triggerWait"
  /\ \A t \in Triggers : trig[t] = "returned"
  /\ startPc' = "runWait"
  /\ UNCHANGED <<overlapCfg, goos, srvCtxDone, eventCh, trig, fired, loopPc,
                 curEv, activeRuns, runWg, runs, sockOwner, served>>
  /\ UNCHANGED outsideServe

\* Start: runWg.Wait() returns; return nil
StartReturn ==
  /\ startPc = "runWait"
  /\ runWg = 0
  /\ startPc' = "returned"
  /\ UNCHANGED <<overlapCfg, goos, srvCtxDone, eventCh, trig, fired, loopPc,
                 curEv, activeRuns, runWg, runs, sockOwner, served>>
  /\ UNCHANGED outsideServe

(* the goroutine of one run *)

\* s.downloadFTPFiles fails: the run is not executed
PrefetchFail(i) ==
  /\ runs[i].phase = "prefetch"
  /\ runs' = [runs EXCEPT ![i] =
                [Enter(@, PrefetchFailPhase) EXCEPT !.fetch = "failed"]]
  /\ UNCHANGED <<overlapCfg, goos, srvCtxDone, eventCh, trig, fired, loopPc,
                 curEv, activeRuns, runWg, startPc, sockOwner, served>>
  /\ UNCHANGED outsideServe

\* s.downloadFTPFiles succeeds
PrefetchOk(i) ==
  /\ runs[i].phase = "prefetch"
  /\ runs' = [runs EXCEPT ![i] = [Enter(@, "execute") EXCEPT !.fetch = "ok"]]
  /\ UNCHANGED <<overlapCfg, goos, srvCtxDone, eventCh, trig, fired, loopPc,
                 curEv, activeRuns, runWg, startPc, sockOwner, served>>
  /\ UNCHANGED outsideServe

\* engine.Execute returns an error before the RPC service is made
\* (snapshot, data seeding, secrets)
ExecuteError(i) ==
  /\ runs[i].phase = "execute"
  /\ runs' = [runs EXCEPT ![i] = Enter(@, "clear")]
  /\ UNCHANGED <<overlapCfg, goos, srvCtxDone, eventCh, trig, fired, loopPc,
                 curEv, activeRuns, runWg, startPc, sockOwner, served>>
  /\ UNCHANGED outsideServe

\* engine.Execute: sdk.NewServer(socketHint, ...) listens; the tasks start
ExecuteListen(i) ==
  /\ runs[i].phase = "execute"
  /\ runs' = [runs EXCEPT ![i] = [Enter(@, "tasks") EXCEPT
                                           !.listening = TRUE]]
  /\ sockOwner' = SockOwnerAfterListen(i)
  /\ UNCHANGED <<overlapCfg, goos, srvCtxDone, eventCh, trig, fired, loopPc,
                 curEv, activeRuns, runWg, startPc, served>>
  /\ UNCHANGED outsideServe

\* a task of run i connects to PIT_SOCKET and sends a request; served holds
\* the last request as <<run of the task, run of the service>>
TaskRequest(i) ==
  /\ runs[i].phase = "tasks"
  /\ ServiceAt(i) # 0
  /\ served' = {<<i, ServiceAt(i)>>}
  /\ UNCHANGED <<overlapCfg, goos, srvCtxDone, eventCh, trig, fired, loopPc,
                 curEv, activeRuns, runWg, startPc, runs, sockOwner>>
  /\ UNCHANGED outsideServe

\* the last task of the run has ended; run.Status is derived, the summary
\* is printed and cleanupArtifacts runs
TasksEnd(i) ==
  /\ runs[i].phase = "tasks"
  /\ \E st \in {StatusSuccess, StatusFailed} :
       runs' = [runs EXCEPT ![i] = [Enter(@, "shutdown") EXCEPT
                                             !.status = st]]
  /\ UNCHANGED <<overlapCfg, goos, srvCtxDone, eventCh, trig, fired, loopPc,
                 curEv, activeRuns, runWg, startPc, sockOwner, served>>
  /\ UNCHANGED outsideServe

\* deferred in Execute: sdkCancel(); sdkServer.Shutdown(); Execute returns
RPCShutdown(i) ==
  /\ runs[i].phase = "shutdown"
  /\ runs' = [runs EXCEPT ![i] =
                [Enter(@, IF ArchivesFiles(runs[i].source, runs[i].status)
                          THEN "archive" ELSE "clear")
                   EXCEPT !.listening = FALSE]]
  /\ sockOwner' = SockOwnerAfterShutdown(i)
  /\ UNCHANGED <<overlapCfg, goos, srvCtxDone, eventCh, trig, fired, loopPc,
                 curEv, activeRuns, runWg, startPc, served>>
  /\ UNCHANGED outsideServe

\* s.archiveFTPFiles after a successful ftp_watch run
Archive(i) ==
  /\ runs[i].phase = "archive"
  /\ runs' = [runs EXCEPT ![i] = Enter(@, "clear")]
  /\ UNCHANGED <<overlapCfg, goos, srvCtxDone, eventCh, trig, fired, loopPc,
                 curEv, activeRuns, runWg, startPc, sockOwner, served>>
  /\ UNCHANGED outsideServe

\* deferred: s.activeRuns[ev.DAGName] = false
ClearActive(i) ==
  /\ runs[i].phase = "clear"
  /\ activeRuns' = ActiveAfterClear(runs[i].dag)
  /\ runs' = [runs EXCEPT ![i] = Enter(@, "done")]
  /\ UNCHANGED <<overlapCfg, goos, srvCtxDone, eventCh, trig, fired, loopPc,
                 curEv, runWg, startPc, sockOwner, served>>
  /\ UNCHANGED outsideServe

\* deferred: wg.Done(); the goroutine ends
RunDone(i) ==
  /\ runs[i].phase = "done"
  /\ runWg' = runWg - 1
  /\ runs' = [runs EXCEPT ![i] = [@ EXCEPT !.phase = "finished",
                                           !.hist = <<>>,
                                           !.fetch = "none"]]
  /\ UNCHANGED <<overlapCfg, goos, srvCtxDone, eventCh, trig, fired, loopPc,
                 curEv, activeRuns, startPc, sockOwner, served>>
  /\ UNCHANGED outsideServe

NextServe ==
  \/ ServeCancel
  \/ \E t \in Triggers : TriggerFire(t)
  \/ \E t \in Triggers : TriggerReturn(t)
  \/ LoopExit
  \/ LoopReceive
  \/ HandleSkip
  \/ HandleAccept
  \/ HandleLaunch
  \/ StartShutdown
  \/ StartTriggersDone
  \/ StartReturn
  \/ \E i \in DOMAIN runs :
       \/ PrefetchFail(i)
       \/ PrefetchOk(i)
       \/ ExecuteError(i)
       \/ ExecuteListen(i)
       \/ TaskRequest(i)
       \/ TasksEnd(i)
       \/ RPCShutdown(i)
       \/ Archive(i)
       \/ ClearActive(i)
       \/ RunDone(i)

SpecServe == InitServe /\ [][NextServe]_serveVars

\* the scheduler while it serves: the triggers, the event loop, handleEvent
\* and the run goroutines, without the shutdown of Start
NextDispatch ==
  \/ \E t \in Triggers : TriggerFire(t)
  \/ LoopReceive
  \/ HandleSkip
  \/ HandleAccept
  \/ HandleLaunch
  \/ \E i \in DOMAIN runs :
       \/ PrefetchFail(i)
       \/ PrefetchOk(i)
       \/ ExecuteError(i)
       \/ ExecuteListen(i)
       \/ TaskRequest(i)
       \/ TasksEnd(i)
       \/ RPCShutdown(i)
       \/ Archive(i)
       \/ ClearActive(i)
       \/ RunDone(i)

SpecDispatch == InitServe /\ [][NextDispatch]_serveVars


\* no task was handed to executeTask, marked by executeDAG or run
NoTaskStarted ==
  \A t \in TaskNames :
     /\ tpc[t] = "idle"
     /\ invocations[t] = 0
     /\ tasks[t].Attempt = 0
     /\ tasks[t].Status \in {StatusPending, StatusSkipped}

\* C29: Execute returns an error only for a failure before any task is
\* dispatched (snapshot, data seeding, secrets load, RPC bind, an unknown
\* single-task name, a cycle) and no task was started then; once the
\* dispatch has begun it returns the Run with a nil error
C29_ErrorOnlyBeforeDispatch ==
  /\ pc = "error" => execErr # NilError
  /\ execErr # NilError =>
       /\ pc = "error"
       /\ execErr \in SetupErrors \cup {TaskNotFoundError, CycleError}
       /\ execErr = TaskNotFoundError =>
            opts.TaskName # "" /\ opts.TaskName \notin TaskNames
       /\ execErr = CycleError =>
            /\ opts.TaskName = ""
            /\ topoSort([n \in TaskNames |-> tasks[n].DependsOn]).err
       /\ NoTaskStarted
  /\ pc \notin {"start", "error"} => execErr = NilError

\* Execute returned a failed Run, with a task that ran and failed, and a
\* nil error
C29_Witness ==
  /\ pc = "returned"
  /\ execErr = NilError
  /\ runStatus = StatusFailed
  /\ \E t \in TaskNames :
       tasks[t].Status = StatusFailed /\ invocations[t] > 0

\* Execute returned the error of a setup step with every task untouched
C29_SetupErrorReached ==
  /\ pc = "error"
  /\ execErr = "loading secrets"
  /\ \A t \in TaskNames : tasks[t].Status = StatusPending

\* C30: the levels are processed in order with a barrier between them: no
\* task of a level is started, marked upstream_failed or otherwise taken
\* out of pending while a task of an earlier level is not finished, and the
\* statuses the upstream check of a level reads for the earlier levels are
\* their final ones
C30_LevelBarrier ==
  opts.TaskName = "" =>
    /\ \A j \in DOMAIN levels : \A b \in DOMAIN levels[j] :
         LET t == levels[j][b]
         IN  (tpc[t] # "idle" \/ tasks[t].Status # StatusPending) =>
               \A i \in 1 .. (j - 1) : \A a \in DOMAIN levels[i] :
                  /\ tpc[levels[i][a]] \in {"idle", "done"}
                  /\ tasks[levels[i][a]].Status \in Terminal
    /\ pc \in {"dispatch", "wait"} =>
         \A i \in 1 .. (li - 1) : \A a \in DOMAIN levels[i] :
            /\ statusMap[levels[i][a]] = tasks[levels[i][a]].Status
            /\ statusMap[levels[i][a]] \in Terminal

\* the task of the third level is in its runner after the two tasks of the
\* second level have finished, one of them after a retry
C30_Witness ==
  /\ opts.TaskName = ""
  /\ Len(levels) >= 3
  /\ Len(levels[2]) = 2
  /\ \E t \in TaskNames : LevelOf(t) = 3 /\ tpc[t] = "run"
  /\ \A i \in DOMAIN levels[2] : tasks[levels[2][i]].Status = StatusSuccess
  /\ \E i \in DOMAIN levels[2] : tasks[levels[2][i]].Attempt = 2
(* ---------------------------------------------------------------------- *)
(* Properties of the scheduler                                             *)
(* ---------------------------------------------------------------------- *)

\* a run is in flight from its launch until its goroutine has cleared the
\* activeRuns flag of its DAG
InFlight(i) ==
  runs[i].phase \in {"prefetch", "execute", "tasks", "shutdown", "archive",
                     "clear"}

RunsInFlight(d) == {i \in DOMAIN runs : runs[i].dag = d /\ InFlight(i)}

\* C12: when the overlap policy of a DAG is "skip", at most one run of that
\* DAG is in flight at any time.
C12_SkipAtMostOneInFlight ==
  \A d \in DAGNames :
    EffectiveOverlap(d) = "skip" => Cardinality(RunsInFlight(d)) <= 1

\* C12 witness: two events of d1 were sent and handled, the second one while
\* the run of the first was in flight, and only one run exists.
C12_Witness ==
  /\ overlapCfg["d1"] = "skip"
  /\ fired = 2
  /\ eventCh = <<>>
  /\ loopPc = "select"
  /\ Len(runs) = 1
  /\ runs[1].dag = "d1"
  /\ runs[1].phase = "tasks"

\* C12: with the policy "allow" (or unset) two runs of one DAG are in flight
\* together.
C12_AllowOverlaps ==
  /\ EffectiveOverlap("d1") = "allow"
  /\ Cardinality(RunsInFlight("d1")) = 2

\* C13: once the dispatcher's context is cancelled, Start returns only after
\* every trigger has returned and every launched run has finished, and no
\* run is launched once Start has begun waiting for the active runs or after
\* it has returned.
C13_StartWaitsAndLaunchesNothingLate ==
  /\ startPc = "returned" =>
       /\ \A t \in Triggers : trig[t] = "returned"
       /\ \A i \in DOMAIN runs : runs[i].phase = "finished"
  /\ \A i \in DOMAIN runs : ~runs[i].late

\* C13: a run is launched after Start has returned, from an event that was
\* buffered when the context was cancelled.
C13_LateLaunchReached ==
  /\ startPc = "returned"
  /\ \E i \in DOMAIN runs : runs[i].late /\ InFlight(i)

\* C14: for every run, from before its first task starts until after its
\* last task has ended and cleanup is done, the RPC service of the run is
\* bound and reachable at the address published to the tasks.
C14_ServiceReachableWhileTasksRun ==
  \A i \in DOMAIN runs :
    runs[i].phase \in {"tasks", "shutdown"} => ServiceAt(i) = i

\* C15: two concurrent runs never share an RPC endpoint, and a request made
\* by a task of run R is always handled by the service of run R.
C15_RequestHandledByOwnService ==
  /\ \A i, j \in DOMAIN runs :
       (i # j /\ runs[i].listening /\ runs[j].listening)
          => SocketAddr(i) # SocketAddr(j)
  /\ \A p \in served : p[1] = p[2]

\* C14, C15: on Windows every run has its own TCP port, and a task reaches
\* the service of its own run while another run is listening.
C15_OwnPortReached ==
  /\ goos = "windows"
  /\ Len(runs) = 2
  /\ runs[1].listening /\ runs[2].listening
  /\ served = {<<1, 1>>}

\* one step of the goroutine of run i
RunStep(i) ==
  \/ PrefetchFail(i)
  \/ PrefetchOk(i)
  \/ ExecuteError(i)
  \/ ExecuteListen(i)
  \/ TasksEnd(i)
  \/ RPCShutdown(i)
  \/ Archive(i)
  \/ ClearActive(i)
  \/ RunDone(i)

\* handleEvent starts the goroutine of the event it accepted, or a run
\* goroutine takes its next step
DispatchProgress == HandleLaunch \/ \E i \in DOMAIN runs : RunStep(i)

\* the scheduler while it serves, without the requests of the tasks
NextSkip ==
  \/ \E t \in Triggers : TriggerFire(t)
  \/ LoopReceive
  \/ HandleSkip
  \/ HandleAccept
  \/ HandleLaunch
  \/ \E i \in DOMAIN runs :
       \/ PrefetchFail(i)
       \/ PrefetchOk(i)
       \/ ExecuteError(i)
       \/ ExecuteListen(i)
       \/ TasksEnd(i)
       \/ RPCShutdown(i)
       \/ Archive(i)
       \/ ClearActive(i)
       \/ RunDone(i)

\* d1 has overlap = "skip"; d2 has any policy
InitSkip == InitServe /\ overlapCfg["d1"] = "skip"

\* the scheduler while it serves a workspace with a skip DAG, where
\* handleEvent goes on to start the goroutine of an accepted event and the
\* run goroutines go on to their end (every download, Execute and archive
\* call returns)
SpecSkipLive ==
  InitSkip /\ [][NextSkip]_serveVars /\ WF_serveVars(DispatchProgress)

\* handleEvent has marked d active for the event in hand and is about to
\* start its goroutine
Launching(d) == loopPc = "launch" /\ curEv.dag = d

\* the way the goroutine of run i came to its end
ExitPath(i) ==
  IF runs[i].fetch = "failed" THEN "prefetch"
  ELSE IF runs[i].status = "none" THEN "error"
  ELSE runs[i].status

\* under skip the flag of d is set exactly from the acceptance of an event
\* until the goroutine of its run has cleared it, whatever way it ends
FlagWhileActive ==
  \A d \in DAGNames :
    EffectiveOverlap(d) = "skip" =>
      /\ activeRuns[d] <=> (RunsInFlight(d) # {} \/ Launching(d))
      /\ \A i \in DOMAIN runs :
            (runs[i].dag = d /\ runs[i].phase = "done") =>
               ExitPath(i) \in {"prefetch", "error", StatusFailed,
                                 StatusSuccess}

\* handleEvent with an event of a skip DAG in hand: while the flag is set
\* the step of handleEvent starts nothing and leaves the flag alone; while
\* it is clear the step accepts the event
SkipStep ==
  (/\ loopPc = "handle"
   /\ EffectiveOverlap(curEv.dag) = "skip"
   /\ loopPc' # "handle")
    => IF activeRuns[curEv.dag]
       THEN /\ loopPc' = "select"
            /\ runs' = runs
            /\ activeRuns' = activeRuns
       ELSE /\ loopPc' = "launch"
            /\ activeRuns'[curEv.dag]

\* C35: for a DAG with overlap skip, an event handled while a run of the
\* DAG is active starts no run and leaves the flag set; the flag is set
\* exactly while the run is in flight; the goroutine clears it on each of
\* its ways out, so a set flag is always cleared in the end; and an event
\* handled when the flag is clear is accepted.
C35_SkipKeepsFlagUntilRunEnds ==
  /\ [](FlagWhileActive)
  /\ [][SkipStep]_serveVars
  /\ \A d \in DAGNames :
       (EffectiveOverlap(d) = "skip" /\ activeRuns[d]) ~> ~activeRuns[d]

\* C35 witness: two events of the skip DAG d1 were handled, the second was
\* dropped while the run of the first was in flight, and that run has ended
\* with the flag cleared.
C35_Witness ==
  /\ overlapCfg["d1"] = "skip"
  /\ fired = 2
  /\ eventCh = <<>>
  /\ loopPc = "select"
  /\ Len(runs) = 1
  /\ runs[1].dag = "d1"
  /\ runs[1].phase = "finished"
  /\ ~activeRuns["d1"]
  /\ ~activeRuns["d2"]

\* C35: the flag of a skip DAG was cleared after a download failure, and
\* the next event of the DAG was accepted.
C35_AcceptedAfterPrefetchFailure ==
  /\ overlapCfg["d1"] = "skip"
  /\ Len(runs) = 2
  /\ runs[1].dag = "d1" /\ runs[2].dag = "d1"
  /\ ExitPath(1) = "prefetch"
  /\ runs[1].phase = "done"
  /\ InFlight(2)

\* the runs are followed on Linux (the sockets play no part)
InitFiles == InitServe /\ goos = "linux"

\* the scheduler while it serves and its runs, without the requests of the
\* tasks
SpecFiles == InitFiles /\ [][NextSkip]_serveVars

\* the phases the goroutine of run i has been through
Visited(i) == {runs[i].hist[k] : k \in DOMAIN runs[i].hist}

\* C36: the run of a file-arrival event reaches the executor only after its
\* files were downloaded, and not at all when the download failed; its files
\* are archived only after Execute has returned a run of status success,
\* never after a failed run or an execution error; a run of another source
\* downloads and archives nothing.
C36_PrefetchBeforeArchiveAfterSuccess ==
  \A i \in {k \in DOMAIN runs : runs[k].phase # "finished"} :
    /\ runs[i].source = "ftp_watch" =>
         /\ runs[i].hist[1] = "prefetch"
         /\ "execute" \in Visited(i) => runs[i].fetch = "ok"
         /\ runs[i].fetch = "failed" =>
              /\ Visited(i) \cap {"execute", "tasks", "shutdown",
                                    "archive"} = {}
              /\ ~runs[i].listening
              /\ runs[i].status = "none"
    /\ "archive" \in Visited(i) =>
         /\ runs[i].source = "ftp_watch"
         /\ "shutdown" \in Visited(i)
         /\ runs[i].status = StatusSuccess
         /\ ~runs[i].listening
    /\ runs[i].source # "ftp_watch" =>
         runs[i].fetch = "none" /\ "prefetch" \notin Visited(i)

\* C36 witness: the goroutine of the run of a file-arrival event is at its
\* end after download, execution with status success and archive, in that
\* order.
C36_Witness ==
  \E i \in DOMAIN runs :
    /\ runs[i].source = "ftp_watch"
    /\ runs[i].hist = <<"prefetch", "execute", "tasks", "shutdown",
                         "archive", "clear", "done">>
    /\ runs[i].status = StatusSuccess

\* C36: the goroutines of the runs of two file-arrival events are at their
\* end without archive, one after a failed download and one with status
\* failed.
C36_NoArchiveReached ==
  /\ Len(runs) = 2
  /\ runs[1].hist = <<"prefetch", "clear", "done">>
  /\ runs[2].hist = <<"prefetch", "execute", "tasks", "shutdown", "clear",
                       "done">>
  /\ runs[2].status = StatusFailed

\* C40: under every overlap policy the activeRuns flag of a DAG is true
\* whenever at least one run of the DAG is in flight; a run that finishes
\* while another run of the DAG is still in flight does not clear it.
C40_FlagWhileAnyRunInFlight ==
  \A d \in DAGNames : RunsInFlight(d) # {} => activeRuns[d]

\* C40: two runs of d1 overlapped under the policy allow, the first has
\* ended and cleared the flag, and the second is still executing its tasks.
C40_FlagClearedWhileRunning ==
  /\ EffectiveOverlap("d1") = "allow"
  /\ Len(runs) = 2
  /\ runs[1].dag = "d1" /\ runs[2].dag = "d1"
  /\ runs[1].phase = "finished"
  /\ runs[2].phase = "tasks"
  /\ ~activeRuns["d1"]

(* ====================================================================== *)
(* The RPC server: sdk.Server.Serve, Shutdown and handleConn               *)
(* ====================================================================== *)

\* largest number of client connections in one behaviour
MaxConns == 2

\* what a client sends: bytes that are no JSON request, a request for a
\* method without handler, a request whose handler returns an error, a
\* request whose handler returns a result
RequestKinds == {"malformed", "unknown", "handlerErr", "ok"}

\* positions of handleConn
HandlerPcs == {"decode", "lookup", "handler", "closing", "closed"}

\* mutant: a path of handleConn that encodes no response
RespondNothing(n) == n

\* json.NewEncoder(conn).Encode(resp): one more response on the connection
Respond(n) == n + 1

\* mutant: Serve returns after the first connection
ServeAfterSpawnReturns == "returnedNil"

\* Serve after go func() {...}(): the for loop calls Accept again
ServeAfterSpawn == "accept"

\* Serve after Accept failed: select { case <-ctx.Done(): ... default: ... }
ServeAfterAcceptError == IF sdkCtxDone THEN "waitHandlers" ELSE "returnedErr"

\* the connections waiting in the listener's queue
Queued == {i \in DOMAIN conns : conns[i].pc = "queued"}

\* the connection Accept returns: the oldest one in the queue
FirstQueued == CHOOSE i \in Queued : \A j \in Queued : i <= j

\* the connection Accept has returned and Serve holds
Accepted == {i \in DOMAIN conns : conns[i].pc = "accepted"}

SetConn(i, f, v) == [conns EXCEPT ![i] = [@ EXCEPT ![f] = v]]

\* handleConn encodes resp on connection i and goes on to its return
Reply(i, r) ==
  [conns EXCEPT ![i] = [@ EXCEPT !.responses = Respond(@),
                                 !.reply = r,
                                 !.pc = "closing"]]

InitSDK ==
  /\ sdkCtxDone = FALSE
  /\ listenerOpen = TRUE
  /\ servePc = "accept"
  /\ closerPc = "waiting"
  /\ shutdownPc = "idle"
  /\ connWg = 0
  /\ conns = <<>>
  /\ EngineIdle
  /\ ServeIdle
  /\ WatchIdle
  /\ TopoIdle
  /\ RunIDIdle
  /\ SecretsIdle
  /\ PrefixIdle
  /\ ScriptIdle
  /\ CronIdle
  /\ StableIdle

\* a client connects to the address of the server and sends its bytes
Connect(k) ==
  /\ Len(conns) < MaxConns
  /\ listenerOpen
  /\ conns' = Append(conns, [kind |-> k, pc |-> "queued", responses |-> 0,
                             reply |-> "none", closed |-> FALSE,
                             late |-> FALSE])
  /\ UNCHANGED <<sdkCtxDone, listenerOpen, servePc, closerPc, shutdownPc,
                 connWg>>
  /\ UNCHANGED outsideSDK

\* Serve: conn, err := s.listener.Accept() returns a connection
AcceptConn ==
  /\ servePc = "accept"
  /\ listenerOpen
  /\ Queued # {}
  /\ conns' = SetConn(FirstQueued, "pc", "accepted")
  /\ servePc' = "gotConn"
  /\ UNCHANGED <<sdkCtxDone, listenerOpen, closerPc, shutdownPc, connWg>>
  /\ UNCHANGED outsideSDK

\* Serve: Accept returns an error, the listener is closed
AcceptFails ==
  /\ servePc = "accept"
  /\ ~listenerOpen
  /\ servePc' = "acceptErr"
  /\ UNCHANGED <<sdkCtxDone, listenerOpen, closerPc, shutdownPc, connWg,
                 conns>>
  /\ UNCHANGED outsideSDK

\* Serve: the select after the failed Accept
ServeOnError ==
  /\ servePc = "acceptErr"
  /\ servePc' = ServeAfterAcceptError
  /\ UNCHANGED <<sdkCtxDone, listenerOpen, closerPc, shutdownPc, connWg,
                 conns>>
  /\ UNCHANGED outsideSDK

\* Serve: s.wg.Wait() returns; return nil
ServeWaitDone ==
  /\ servePc = "waitHandlers"
  /\ connWg = 0
  /\ servePc' = "returnedNil"
  /\ UNCHANGED <<sdkCtxDone, listenerOpen, closerPc, shutdownPc, connWg,
                 conns>>
  /\ UNCHANGED outsideSDK

\* Serve: s.wg.Add(1); go func() { defer s.wg.Done(); s.handleConn(conn) }()
Spawn ==
  /\ servePc = "gotConn"
  /\ \E i \in Accepted :
       conns' = [conns EXCEPT ![i] = [@ EXCEPT !.pc = "decode",
                                      !.late = (shutdownPc = "returned")]]
  /\ connWg' = connWg + 1
  /\ servePc' = ServeAfterSpawn
  /\ UNCHANGED <<sdkCtxDone, listenerOpen, closerPc, shutdownPc>>
  /\ UNCHANGED outsideSDK

\* the owner of the server cancels the context given to Serve
SDKCancel ==
  /\ ~sdkCtxDone
  /\ sdkCtxDone' = TRUE
  /\ UNCHANGED <<listenerOpen, servePc, closerPc, shutdownPc, connWg, conns>>
  /\ UNCHANGED outsideSDK

\* Serve's goroutine: <-ctx.Done(); s.listener.Close()
CloserCloses ==
  /\ closerPc = "waiting"
  /\ sdkCtxDone
  /\ listenerOpen' = FALSE
  /\ closerPc' = "done"
  /\ UNCHANGED <<sdkCtxDone, servePc, shutdownPc, connWg, conns>>
  /\ UNCHANGED outsideSDK

\* Shutdown: err := s.listener.Close()
ShutdownClose ==
  /\ shutdownPc = "idle"
  /\ listenerOpen' = FALSE
  /\ shutdownPc' = "wait"
  /\ UNCHANGED <<sdkCtxDone, servePc, closerPc, connWg, conns>>
  /\ UNCHANGED outsideSDK

\* Shutdown: s.wg.Wait() returns; os.Remove(s.socketPath); return err
ShutdownReturn ==
  /\ shutdownPc = "wait"
  /\ connWg = 0
  /\ shutdownPc' = "returned"
  /\ UNCHANGED <<sdkCtxDone, listenerOpen, servePc, closerPc, connWg, conns>>
  /\ UNCHANGED outsideSDK

\* handleConn: Decode fails; the error response is encoded; return
DecodeFails(i) ==
  /\ conns[i].pc = "decode"
  /\ conns[i].kind = "malformed"
  /\ conns' = Reply(i, "error")
  /\ UNCHANGED <<sdkCtxDone, listenerOpen, servePc, closerPc, shutdownPc,
                 connWg>>
  /\ UNCHANGED outsideSDK

\* handleConn: Decode succeeds
DecodeOk(i) ==
  /\ conns[i].pc = "decode"
  /\ conns[i].kind # "malformed"
  /\ conns' = SetConn(i, "pc", "lookup")
  /\ UNCHANGED <<sdkCtxDone, listenerOpen, servePc, closerPc, shutdownPc,
                 connWg>>
  /\ UNCHANGED outsideSDK

\* handleConn: no handler for req.Method; the error response is encoded
UnknownMethod(i) ==
  /\ conns[i].pc = "lookup"
  /\ conns[i].kind = "unknown"
  /\ conns' = Reply(i, "error")
  /\ UNCHANGED <<sdkCtxDone, listenerOpen, servePc, closerPc, shutdownPc,
                 connWg>>
  /\ UNCHANGED outsideSDK

\* handleConn: the handler is found and called
LookupOk(i) ==
  /\ conns[i].pc = "lookup"
  /\ conns[i].kind # "unknown"
  /\ conns' = SetConn(i, "pc", "handler")
  /\ UNCHANGED <<sdkCtxDone, listenerOpen, servePc, closerPc, shutdownPc,
                 connWg>>
  /\ UNCHANGED outsideSDK

\* handleConn: the handler returns; resp.Error or resp.Result is encoded
HandlerReturns(i) ==
  /\ conns[i].pc = "handler"
  /\ conns' = Reply(i, IF conns[i].kind = "handlerErr" THEN "error"
                       ELSE "result")
  /\ UNCHANGED <<sdkCtxDone, listenerOpen, servePc, closerPc, shutdownPc,
                 connWg>>
  /\ UNCHANGED outsideSDK

\* handleConn returns: the deferred conn.Close()
ConnClose(i) ==
  /\ conns[i].pc = "closing"
  /\ conns' = [conns EXCEPT ![i] = [@ EXCEPT !.pc = "closed",
                                             !.closed = TRUE]]
  /\ UNCHANGED <<sdkCtxDone, listenerOpen, servePc, closerPc, shutdownPc,
                 connWg>>
  /\ UNCHANGED outsideSDK

\* the goroutine of the connection ends: the deferred s.wg.Done()
ConnDone(i) ==
  /\ conns[i].pc = "closed"
  /\ conns' = SetConn(i, "pc", "done")
  /\ connWg' = connWg - 1
  /\ UNCHANGED <<sdkCtxDone, listenerOpen, servePc, closerPc, shutdownPc>>
  /\ UNCHANGED outsideSDK

NextSDK ==
  \/ \E k \in RequestKinds : Connect(k)
  \/ AcceptConn
  \/ AcceptFails
  \/ ServeOnError
  \/ ServeWaitDone
  \/ Spawn
  \/ SDKCancel
  \/ CloserCloses
  \/ ShutdownClose
  \/ ShutdownReturn
  \/ \E i \in DOMAIN conns :
       \/ DecodeFails(i)
       \/ DecodeOk(i)
       \/ UnknownMethod(i)
       \/ LookupOk(i)
       \/ HandlerReturns(i)
       \/ ConnClose(i)
       \/ ConnDone(i)

SpecSDK == InitSDK /\ [][NextSDK]_sdkVars

(* ---------------------------------------------------------------------- *)
(* Properties of the RPC server                                            *)
(* ---------------------------------------------------------------------- *)

\* C16: every accepted connection is answered with exactly one response and
\* then closed, on every path of handleConn: no connection is closed with
\* zero or two responses, none gets a second response, and the response is
\* written before the close.
C16_ExactlyOneResponseThenClose ==
  \A i \in DOMAIN conns :
    /\ conns[i].responses <= 1
    /\ conns[i].closed => conns[i].responses = 1
    /\ conns[i].pc \in {"closing", "closed", "done"} => conns[i].responses = 1
    /\ conns[i].pc = "done" => conns[i].closed
    /\ conns[i].pc \in {"queued", "accepted", "decode", "lookup", "handler"}
         => conns[i].responses = 0 /\ ~conns[i].closed

\* C16 witness: an undecodable request and a request with a handler error
\* were both answered and closed.
C16_Witness ==
  /\ Len(conns) = 2
  /\ conns[1].kind = "malformed" /\ conns[1].pc = "done"
  /\ conns[2].kind = "handlerErr" /\ conns[2].pc = "done"

\* C16: the other two paths, unknown method and handler success, end too.
C16_OtherPathsReached ==
  /\ Len(conns) = 2
  /\ conns[1].kind = "unknown" /\ conns[1].pc = "done"
  /\ conns[2].kind = "ok" /\ conns[2].pc = "done"
  /\ conns[2].reply = "result"

\* C17: when Shutdown has returned, the listener is closed, no connection
\* handler is executing, and no handler has started after the return.
C17_ShutdownLeavesNoHandler ==
  /\ shutdownPc = "returned" =>
       /\ ~listenerOpen
       /\ \A i \in DOMAIN conns : conns[i].pc \notin HandlerPcs
  /\ \A i \in DOMAIN conns : ~conns[i].late

\* C17: a handler runs after Shutdown has returned, for a connection that
\* Accept had returned before the listener was closed.
C17_LateHandlerReached ==
  /\ shutdownPc = "returned"
  /\ \E i \in DOMAIN conns : conns[i].late /\ conns[i].pc = "handler"

\* C18: whatever requests were answered with errors, as long as the context
\* is not cancelled and Shutdown is not called the listener is open and
\* Serve is in its accept loop.
C18_ErrorsDoNotStopService ==
  (~sdkCtxDone /\ shutdownPc = "idle") =>
     /\ listenerOpen
     /\ servePc \in {"accept", "gotConn"}

\* C18 witness: after a request that was answered with a handler error, a
\* valid request on a new connection is accepted and answered with a result.
C18_Witness ==
  /\ ~sdkCtxDone /\ shutdownPc = "idle"
  /\ Len(conns) = 2
  /\ conns[1].kind = "handlerErr" /\ conns[1].reply = "error"
  /\ conns[1].pc = "done"
  /\ conns[2].kind = "ok" /\ conns[2].reply = "result"

(* ====================================================================== *)
(* The file watch: FTPWatchTrigger.poll and FindStableFiles                *)
(* ====================================================================== *)

\* the clock stops at MaxTime
MaxTime == 4

\* largest file size (0 stands for a file that is not in the directory)
MaxSize == 2

\* the files of the directory that match the pattern
FileNames == {"f1", "f2"}

\* cfg.StableSeconds, in ticks of the clock
ThresholdChoices == 0 .. 2

\* a name without entry in the tracking map
Untracked == [present |-> FALSE, Size |-> 0, FirstSeen |-> 0]

\* client.List: the files in the directory
Listed == {f \in FileNames : remote[f] > 0}

\* mutant: the stability timer is started for new files only
NeedsResetNewOnly(exists, prevSize, size) == ~exists

\* if !exists || prev.Size != f.Size
NeedsReset(exists, prevSize, size) == ~exists \/ prevSize # size

\* mutant: files that disappeared stay in the tracking map
UpdateTrackingKeepsGone(tr, t) ==
  [f \in FileNames |->
     IF f \in Listed
     THEN IF NeedsReset(tr[f].present, tr[f].Size, remote[f])
          THEN [present |-> TRUE, Size |-> remote[f], FirstSeen |-> t]
          ELSE tr[f]
     ELSE tr[f]]

\* the tracking map after the two loops of poll: listed files are entered
\* or restarted, files that disappeared are deleted
UpdateTracking(tr, t) ==
  [f \in FileNames |->
     IF f \in Listed
     THEN IF NeedsReset(tr[f].present, tr[f].Size, remote[f])
          THEN [present |-> TRUE, Size |-> remote[f], FirstSeen |-> t]
          ELSE tr[f]
     ELSE Untracked]

\* mutant: a file exactly at the threshold is not stable
FindStableFilesStrict(tr, th, t) ==
  {f \in FileNames : tr[f].present /\ t - tr[f].FirstSeen > th}

\* now.Sub(state.FirstSeen) >= threshold
FindStableFiles(tr, th, t) ==
  {f \in FileNames : tr[f].present /\ t - tr[f].FirstSeen >= th}

\* mutant: the emitted files stay in the tracking map
DeleteStableKeeps(tr, stable) == tr

\* for _, name := range stable { delete(tracking, name) }
DeleteStable(tr, stable) ==
  [f \in FileNames |-> IF f \in stable THEN Untracked ELSE tr[f]]

InitWatch ==
  /\ threshold \in ThresholdChoices
  /\ remote \in [FileNames -> 0 .. MaxSize]
  /\ tracking = [f \in FileNames |-> Untracked]
  /\ now = 0
  /\ lastPoll = 0
  /\ lastEvent = {}
  /\ emitCount = [f \in FileNames |-> 0]
  /\ lastObs = [f \in FileNames |-> 0]
  /\ sawSame = [f \in FileNames |-> FALSE]
  /\ changes = [f \in FileNames |-> 0]
  /\ watchCtxDone = FALSE
  /\ EngineIdle
  /\ ServeIdle
  /\ SDKIdle
  /\ TopoIdle
  /\ RunIDIdle
  /\ SecretsIdle
  /\ PrefixIdle
  /\ ScriptIdle
  /\ CronIdle
  /\ StableIdle

\* time passes
Tick ==
  /\ now < MaxTime
  /\ now' = now + 1
  /\ UNCHANGED <<threshold, remote, tracking, lastPoll, lastEvent, emitCount,
                 lastObs, sawSame, changes>>
  /\ UNCHANGED watchCtxDone
  /\ UNCHANGED outsideWatch

\* a file is uploaded, grows, is replaced or is removed
RemoteChange(f, sz) ==
  /\ sz # remote[f]
  /\ remote' = [remote EXCEPT ![f] = sz]
  /\ emitCount' = [emitCount EXCEPT ![f] = 0]
  /\ UNCHANGED <<threshold, tracking, now, lastPoll, lastEvent, lastObs,
                 sawSame, changes>>
  /\ UNCHANGED watchCtxDone
  /\ UNCHANGED outsideWatch

\* the ticker fires and poll returns early: credentials, connect or list
\* failed
PollFails ==
  /\ lastPoll < now
  /\ lastPoll' = now
  /\ lastEvent' = {}
  /\ UNCHANGED <<threshold, remote, tracking, now, emitCount, lastObs,
                 sawSame, changes>>
  /\ UNCHANGED watchCtxDone
  /\ UNCHANGED outsideWatch

\* poll, from its directory listing on, with time.Now() = t: the tracking
\* map is updated and the event with the stable files, if there are any, is
\* sent
PollStep(t, sent) ==
  /\ LET tr1 == UpdateTracking(tracking, t)
         stable == FindStableFiles(tr1, threshold, t)
     IN /\ tracking' = DeleteStable(tr1, stable)
        /\ lastEvent' = IF sent THEN stable ELSE {}
        /\ emitCount' = [f \in FileNames |->
                           IF sent /\ f \in stable /\ emitCount[f] < 2
                           THEN emitCount[f] + 1 ELSE emitCount[f]]
  /\ lastObs' = remote
  /\ sawSame' = [f \in FileNames |->
                   sawSame[f] \/ (f \in Listed /\ lastObs[f] = remote[f])]
  /\ changes' = [f \in FileNames |->
                   IF f \in Listed /\ lastObs[f] > 0 /\ lastObs[f] # remote[f]
                   THEN changes[f] + 1 ELSE changes[f]]

\* poll whose select takes the send (or that has no stable file)
PollAt(t) == PollStep(t, TRUE)

\* the stable files poll finds when it lists the directory now
StableNow ==
  FindStableFiles(UpdateTracking(tracking, now), threshold, now)

\* the ticker fires and poll runs to its end
Poll ==
  /\ lastPoll < now
  /\ lastPoll' = now
  /\ PollAt(now)
  /\ UNCHANGED <<threshold, remote, now>>
  /\ UNCHANGED watchCtxDone
  /\ UNCHANGED outsideWatch

\* the ticker fires and poll runs up to its select, which takes
\* case <-ctx.Done(): the stable files are deleted and no event is sent
PollAbandon ==
  /\ lastPoll < now
  /\ watchCtxDone
  /\ StableNow # {}
  /\ lastPoll' = now
  /\ PollStep(now, FALSE)
  /\ UNCHANGED <<threshold, remote, now>>
  /\ UNCHANGED watchCtxDone
  /\ UNCHANGED outsideWatch

\* the context of the trigger becomes done (Start's select may still take
\* a tick that is ready, and a poll that has begun goes on)
WatchCancel ==
  /\ ~watchCtxDone
  /\ watchCtxDone' = TRUE
  /\ UNCHANGED <<threshold, remote, tracking, now, lastPoll, lastEvent,
                 emitCount, lastObs, sawSame, changes>>
  /\ UNCHANGED outsideWatch

NextWatch ==
  \/ Tick
  \/ \E f \in FileNames, sz \in 0 .. MaxSize : RemoteChange(f, sz)
  \/ PollFails
  \/ Poll

SpecWatch == InitWatch /\ [][NextWatch]_watchVars

\* the thresholds followed when the context may become done
InitWatchStop == InitWatch /\ threshold \in {0, 1}

\* the file watch with the cancellation of its context
NextWatchStop ==
  \/ Tick
  \/ \E f \in FileNames, sz \in 0 .. MaxSize : RemoteChange(f, sz)
  \/ PollFails
  \/ Poll
  \/ PollAbandon
  \/ WatchCancel

SpecWatchStop == InitWatchStop /\ [][NextWatchStop]_watchVars

(* ---------------------------------------------------------------------- *)
(* Properties of the file watch                                            *)
(* ---------------------------------------------------------------------- *)

\* C19: once a file has been emitted in an event, it is not emitted again
\* while it stays in the directory with the same size: at most one event
\* holds the file since its size last changed.
C19_EmittedOnce ==
  \A f \in FileNames : emitCount[f] <= 1

\* C19: a second event with the file, whose size has not changed since
\* the first one.
C19_ReEmittedReached ==
  /\ threshold = 1
  /\ emitCount["f1"] = 2
  /\ "f1" \in lastEvent

\* C20: with a threshold greater than zero, every file of an event was
\* shown with the same size by two listings in a row: a file whose size
\* differs at every listing is in no event.
C20_ChangingFileNeverEmitted ==
  threshold > 0 =>
    \A f \in lastEvent : sawSame[f]

\* C20 witness: f1 was listed with a new size three times in a row, never
\* twice with the same size, and the last poll sent no event.
C20_Witness ==
  /\ threshold = 1
  /\ changes["f1"] = 3
  /\ ~sawSame["f1"]
  /\ emitCount["f1"] = 0
  /\ lastPoll = now
  /\ lastEvent = {}

\* C20: with threshold 0 a file is emitted by the poll that first lists it.
C20_ZeroThresholdEmitsAtOnce ==
  /\ threshold = 0
  /\ "f1" \in lastEvent
  /\ ~sawSame["f1"]

\* the names in the tracking map
Tracked == {f \in FileNames : tracking[f].present}

\* the names in the tracking map after the step
TrackedNext == {f \in FileNames : tracking'[f].present}

\* a poll that fails leaves the tracking map alone and sends nothing
FailedPollKeepsTracking ==
  PollFails => (tracking' = tracking /\ lastEvent' = {})

\* C38 as stated: after every poll that completes its listing the tracking
\* map holds exactly the listed files that the poll did not emit, every
\* emitted file was listed by that poll, and a failed poll leaves the
\* tracking map unchanged and emits nothing.
C38_Original ==
  [][/\ (Poll \/ PollAbandon) =>
          /\ lastEvent' \subseteq Listed
          /\ TrackedNext = Listed \ lastEvent'
     /\ FailedPollKeepsTracking]_watchVars

\* C38 amended: after every poll that completes its listing the tracking
\* map holds only listed files and none that the poll emitted, and every
\* emitted file was listed by that poll; it holds exactly the listed files
\* that were not emitted whenever the context is not done, while with the
\* context done the poll may have deleted its stable files without sending
\* the event; a failed poll leaves the tracking map unchanged and emits
\* nothing.
C38_Amended ==
  [][/\ (Poll \/ PollAbandon) =>
          /\ lastEvent' \subseteq Listed
          /\ TrackedNext \subseteq Listed \ lastEvent'
          /\ ~watchCtxDone => TrackedNext = Listed \ lastEvent'
          /\ TrackedNext # Listed \ lastEvent' =>
               (lastEvent' = {} /\ TrackedNext = Listed \ StableNow)
     /\ FailedPollKeepsTracking]_watchVars

\* C38 witness: the last poll emitted f1 and kept f2, which it listed and
\* did not find stable, in the tracking map, and f1 is gone from the map.
C38_Witness ==
  /\ lastPoll = now
  /\ lastEvent = {"f1"}
  /\ lastObs["f1"] > 0 /\ lastObs["f2"] > 0
  /\ remote = lastObs
  /\ Tracked = {"f2"}

\* C38: with the context done the last poll deleted the stable file f1 from
\* the tracking map and sent no event, so that f1 is listed, not emitted and
\* not tracked.
C38_DroppedReached ==
  /\ watchCtxDone
  /\ lastPoll = now
  /\ lastEvent = {}
  /\ remote = lastObs
  /\ lastObs["f1"] > 0
  /\ ~tracking["f1"].present
  /\ sawSame["f1"]
  /\ threshold > 0

(* ---------------------------------------------------------------------- *)
(* Scenario S5 of the file watch                                           *)
(* ---------------------------------------------------------------------- *)

\* clock steps in one second: poll reads time.Now() after connecting and
\* listing, some steps after its tick
S5Unit == 4

\* the ticks of the scenario
S5Horizon == 9

\* the tick of the last poll
PollIndex == lastPoll \div S5Unit

\* poll interval 1 s, stable_seconds = 3, F (f1) has size 100 at t = 0
InitS5 ==
  /\ threshold = 3 * S5Unit
  /\ remote = [f \in FileNames |-> IF f = "f1" THEN 100 ELSE 0]
  /\ tracking = [f \in FileNames |-> Untracked]
  /\ now = 0
  /\ lastPoll = 0
  /\ lastEvent = {}
  /\ emitCount = [f \in FileNames |-> 0]
  /\ lastObs = [f \in FileNames |-> 0]
  /\ sawSame = [f \in FileNames |-> FALSE]
  /\ changes = [f \in FileNames |-> 0]
  /\ watchCtxDone = FALSE
  /\ EngineIdle
  /\ ServeIdle
  /\ SDKIdle
  /\ TopoIdle
  /\ RunIDIdle
  /\ SecretsIdle
  /\ PrefixIdle
  /\ ScriptIdle
  /\ CronIdle
  /\ StableIdle

\* a trigger that was started before t = 0 polls at t = 0 and lists F with
\* size 100
S5PollAtZero(j) ==
  /\ lastPoll = 0
  /\ lastObs["f1"] = 0
  /\ remote["f1"] = 100
  /\ now' = j
  /\ lastPoll' = j
  /\ PollAt(j)
  /\ UNCHANGED <<threshold, remote>>
  /\ UNCHANGED watchCtxDone
  /\ UNCHANGED outsideWatch

\* F grows to size 200 before the poll at t = 1 s
S5Grow ==
  /\ remote["f1"] = 100
  /\ RemoteChange("f1", 200)

\* the tick at t = PollIndex + 1: poll lists F with size 200 and reads the
\* clock j steps after the tick
S5Poll(j) ==
  /\ remote["f1"] = 200
  /\ PollIndex < S5Horizon
  /\ LET t == (PollIndex + 1) * S5Unit + j
     IN /\ now' = t
        /\ lastPoll' = t
        /\ PollAt(t)
  /\ UNCHANGED <<threshold, remote>>
  /\ UNCHANGED watchCtxDone
  /\ UNCHANGED outsideWatch

NextS5 ==
  \/ \E j \in 0 .. S5Unit - 1 : S5PollAtZero(j)
  \/ S5Grow
  \/ \E j \in 0 .. S5Unit - 1 : S5Poll(j)

SpecS5 == InitS5 /\ [][NextS5]_watchVars

C21_EmittedAtFiveReached ==
  /\ lastEvent = {"f1"}
  /\ emitCount["f1"] = 1
  /\ PollIndex = 5

\* C21: the second event with F, at the poll at t = 8.
C21_SecondEventReached ==
  /\ lastEvent = {"f1"}
  /\ emitCount["f1"] = 2
  /\ PollIndex = 8

(* ====================================================================== *)
(* topoSort on every small task list                                       *)
(* ====================================================================== *)

\* longest depends_on list
MaxDeps == 2

\* the names a depends_on list may hold: the tasks and one unknown name
DepNames == Append(TaskOrder, NoSuchTask)

\* the lists of k different names (the order of a list has no effect on
\* topoSort, so one order is taken)
DepListsOfLen(k) ==
  {[i \in 1 .. k |-> DepNames[g[i]]] :
     g \in {h \in [1 .. k -> DOMAIN DepNames] :
              \A i \in 1 .. k - 1 : h[i] < h[i + 1]}}

\* a depends_on list that names a task twice (dag.Validate accepts it)
RepeatedDeps == {<<"a", "a">>}

\* the depends_on lists that are enumerated
DepLists == UNION {DepListsOfLen(k) : k \in 0 .. MaxDeps} \cup RepeatedDeps

InitTopo ==
  /\ topoDeps \in [TaskNames -> DepLists]
  /\ topoPc = "call"
  /\ topoRes = <<>>
  /\ topoRun = {}
  /\ EngineIdle
  /\ ServeIdle
  /\ SDKIdle
  /\ WatchIdle
  /\ RunIDIdle
  /\ SecretsIdle
  /\ PrefixIdle
  /\ ScriptIdle
  /\ CronIdle
  /\ StableIdle

\* Execute, full DAG: levels, err := topoSort(run.Tasks); an error is
\* returned, else executeDAG gets the levels
TopoCall ==
  /\ topoPc = "call"
  /\ LET r == topoSort(topoDeps)
     IN /\ topoRes' = r
        /\ topoRun' = IF r.err THEN {}
                      ELSE UNION {{r.levels[l][i] : i \in DOMAIN r.levels[l]} :
                                    l \in DOMAIN r.levels}
  /\ topoPc' = "returned"
  /\ UNCHANGED topoDeps
  /\ UNCHANGED outsideTopo

NextTopo == TopoCall

SpecTopo == InitTopo /\ [][NextTopo]_topoVars

(* ---------------------------------------------------------------------- *)
(* Properties of topoSort                                                  *)
(* ---------------------------------------------------------------------- *)

\* every dependency names a listed task
KnownDeps(deps) ==
  \A n \in TaskNames : \A i \in DOMAIN deps[n] : deps[n][i] \in TaskNames

\* the listed tasks that n depends on
DepSet(deps, n) == {deps[n][i] : i \in DOMAIN deps[n]} \cap TaskNames

\* the tasks reached from the set S along dependencies
RECURSIVE DepClosure(_, _)
DepClosure(deps, S) ==
  LET T == S \cup UNION {DepSet(deps, n) : n \in S}
  IN IF T = S THEN S ELSE DepClosure(deps, T)

\* the tasks that lie on a dependency cycle
OnCycle(deps) ==
  {n \in TaskNames : n \in DepClosure(deps, DepSet(deps, n))}

Cyclic(deps) == OnCycle(deps) # {}

\* the positions of task t in the returned levels
TopoPositions(t) ==
  {<<l, i>> \in (DOMAIN topoRes.levels) \X (DOMAIN TaskOrder) :
     i <= Len(topoRes.levels[l]) /\ topoRes.levels[l][i] = t}

\* the level of task t in the returned levels
TopoLevelOf(t) == CHOOSE l \in DOMAIN topoRes.levels :
                    \E i \in DOMAIN topoRes.levels[l] : topoRes.levels[l][i] = t

\* C22: for every task list with unique names whose dependencies name
\* listed tasks and have no cycle, topoSort returns no error and levels in
\* which every task appears exactly once and every dependency of a task is
\* at a strictly lower level than the task.
C22_LevelsRespectDependencies ==
  (topoPc = "returned" /\ KnownDeps(topoDeps) /\ ~Cyclic(topoDeps)) =>
     /\ ~topoRes.err
     /\ \A t \in TaskNames : Cardinality(TopoPositions(t)) = 1
     /\ \A t \in TaskNames : \A d \in DepSet(topoDeps, t) :
          TopoLevelOf(d) < TopoLevelOf(t)

\* C22 witness: the diamond a; b, c <- a; d <- b, c is sorted into three
\* levels.
C22_Witness ==
  /\ topoPc = "returned"
  /\ topoDeps = [a |-> <<>>, b |-> <<"a">>, c |-> <<"a">>, d |-> <<"b", "c">>]
  /\ topoRes.levels = << <<"a">>, <<"b", "c">>, <<"d">> >>

\* C22: a task that names its dependency twice is sorted behind it.
C22_RepeatedDependencyReached ==
  /\ topoPc = "returned"
  /\ topoDeps["b"] = <<"a", "a">>
  /\ ~topoRes.err
  /\ TopoLevelOf("a") < TopoLevelOf("b")

OrderIndex(t) == CHOOSE i \in DOMAIN TaskOrder : TaskOrder[i] = t

\* the greatest number of a non-empty set
SetMax(S) == CHOOSE x \in S : \A y \in S : y <= x

\* C31: topoSort places every task at the earliest possible level: a task
\* without dependencies is in the first level and any other task one level
\* after the latest of its dependencies, so each level is the maximal set of
\* tasks whose dependencies are all in earlier levels; within a level the
\* tasks keep the declared order
C31_EarliestLevelDeclaredOrder ==
  (topoPc = "returned" /\ KnownDeps(topoDeps) /\ ~Cyclic(topoDeps)) =>
     /\ \A t \in TaskNames :
          TopoLevelOf(t) =
            1 + SetMax({TopoLevelOf(d) : d \in DepSet(topoDeps, t)} \cup {0})
     /\ \A l \in DOMAIN topoRes.levels :
          {topoRes.levels[l][i] : i \in DOMAIN topoRes.levels[l]} =
            {t \in TaskNames :
               /\ TopoLevelOf(t) >= l
               /\ \A d \in DepSet(topoDeps, t) : TopoLevelOf(d) < l}
     /\ \A l \in DOMAIN topoRes.levels :
          \A i, j \in DOMAIN topoRes.levels[l] :
             i < j => OrderIndex(topoRes.levels[l][i]) <
                        OrderIndex(topoRes.levels[l][j])

\* C31 witness: c depends on b of the second level and on a of the first
\* and is in the third level; a and d share the first level in declared
\* order
C31_Witness ==
  /\ topoPc = "returned"
  /\ topoDeps = [a |-> <<>>, b |-> <<"a">>, c |-> <<"a", "b">>, d |-> <<>>]
  /\ topoRes.levels = << <<"a", "d">>, <<"b">>, <<"c">> >>

\* C39: topoSort reports a cycle only when the dependencies among the
\* listed tasks contain a cycle: a list without a cycle is never rejected,
\* also when a task depends on a name that is not a listed task.
C39_CycleErrorOnlyForCycle ==
  (topoPc = "returned" /\ topoRes.err) => Cyclic(topoDeps)

\* C39: b depends on a name that no listed task has, no task lies on a
\* cycle, and topoSort has returned the cycle error.
C39_FalseCycleReached ==
  /\ topoPc = "returned"
  /\ topoDeps = [a |-> <<>>, b |-> <<NoSuchTask>>, c |-> <<"a">>,
                  d |-> <<>>]
  /\ ~Cyclic(topoDeps)
  /\ topoRes.err
  /\ topoRun = {}

(* ---------------------------------------------------------------------- *)
(* Run identifiers: GenerateRunID, Snapshot and the runs that handleEvent  *)
(* launches                                                                *)
(* ---------------------------------------------------------------------- *)

\* the clock ticks that are enumerated
MaxTicks == 3

\* clock ticks in one millisecond: time.Now() is finer than the layout
\* "20060102_150405.000" that GenerateRunID prints it with
TicksPerMs == 2

\* the calls of handleEvent that are enumerated
MaxRuns == 3

\* GenerateRunID: the time cut to the millisecond, then "_" and the DAG name
GenerateRunID(t, dagName) == <<t \div TicksPerMs, dagName>>

\* Snapshot: <runsDir>/<runID>/project, logs and data; MkdirAll accepts a
\* directory that exists
RunDirectories(runID) ==
  {<<runID, "project">>, <<runID, "logs">>, <<runID, "data">>}

\* s.activeRuns[d], as the deferred function of the run goroutine keeps it
RidActive(d) ==
  \E i \in DOMAIN ridRuns : ridRuns[i].dag = d /\ ridRuns[i].phase # "done"

\* the runs that called GenerateRunID
RidExecuted == {i \in DOMAIN ridRuns : ridRuns[i].phase # "launched"}

InitRunID ==
  /\ ridOverlap \in [DAGNames -> OverlapValues]
  /\ ridNow = 0
  /\ ridRuns = <<>>
  /\ EngineIdle
  /\ ServeIdle
  /\ SDKIdle
  /\ WatchIdle
  /\ TopoIdle
  /\ SecretsIdle
  /\ PrefixIdle
  /\ ScriptIdle
  /\ CronIdle
  /\ StableIdle

\* the clock advances
RidTick ==
  /\ ridNow < MaxTicks
  /\ ridNow' = ridNow + 1
  /\ UNCHANGED <<ridOverlap, ridRuns>>
  /\ UNCHANGED outsideRunID

\* handleEvent for an event of DAG d: the overlap check, then the goroutine
RidHandleEvent(d) ==
  /\ Len(ridRuns) < MaxRuns
  /\ ~(RidActive(d) /\
        (IF ridOverlap[d] = "" THEN "allow" ELSE ridOverlap[d]) = "skip")
  /\ ridRuns' = Append(ridRuns, [dag |-> d, phase |-> "launched", id |-> <<>>])
  /\ UNCHANGED <<ridOverlap, ridNow>>
  /\ UNCHANGED outsideRunID

\* the run goroutine calls Execute: GenerateRunID, then Snapshot
RidExecute(i) ==
  /\ ridRuns[i].phase = "launched"
  /\ ridRuns' = [ridRuns EXCEPT ![i].phase = "executing",
                                 ![i].id = GenerateRunID(ridNow, ridRuns[i].dag)]
  /\ UNCHANGED <<ridOverlap, ridNow>>
  /\ UNCHANGED outsideRunID

\* Execute returns and the deferred function clears s.activeRuns
RidFinish(i) ==
  /\ ridRuns[i].phase = "executing"
  /\ ridRuns' = [ridRuns EXCEPT ![i].phase = "done"]
  /\ UNCHANGED <<ridOverlap, ridNow>>
  /\ UNCHANGED outsideRunID

NextRunID ==
  \/ RidTick
  \/ \E d \in DAGNames : RidHandleEvent(d)
  \/ \E i \in DOMAIN ridRuns : RidExecute(i)
  \/ \E i \in DOMAIN ridRuns : RidFinish(i)

SpecRunID == InitRunID /\ [][NextRunID]_ridVars

\* C24: any two distinct runs, two concurrent runs of one DAG under a
\* non-skip overlap policy included, have distinct run identifiers, and no
\* two runs write their snapshot, logs or data into the same directory
C24_DistinctRunDirectories ==
  \A i, j \in RidExecuted :
     i # j =>
       /\ ridRuns[i].id # ridRuns[j].id
       /\ RunDirectories(ridRuns[i].id) \cap RunDirectories(ridRuns[j].id) = {}

\* two runs of one DAG are executing at once with one run directory
C24_SharedDirectoryReached ==
  \E i, j \in RidExecuted :
     /\ i # j
     /\ ridRuns[i].phase = "executing"
     /\ ridRuns[j].phase = "executing"
     /\ ridRuns[i].id = ridRuns[j].id

(* ---------------------------------------------------------------------- *)
(* Secrets: Store.lookup, Store.Resolve and the get_secret handler         *)
(* ---------------------------------------------------------------------- *)

\* the sections of the secrets file that are enumerated
Scopes == DAGNames \cup {"global"}

\* the keys that are enumerated; "" is what params["key"] yields for a
\* request without the parameter
SecretKeys == {"", "k"}

\* no entry for the key in the section
NoSecret == [kind |-> "none", Value |-> "", Fields |-> <<>>]

\* Secret{Value: v} and Secret{Fields: fields}
SecretValues ==
  { [kind |-> "plain", Value |-> "v", Fields |-> <<>>],
    [kind |-> "plain", Value |-> "w", Fields |-> <<>>],
    [kind |-> "structured", Value |-> "", Fields |-> [user |-> "u"]] }

\* the results of a call: a value and no error, or an error and no value
Ok(v) == [err |-> "", out |-> v]
Err(e) == [err |-> e, out |-> <<>>]

\* json.Marshal of the fields of a structured secret
Marshal(fields) == <<"json", fields>>

\* mutant: the [global] section is looked at first
lookupGlobalFirst(store, project, key) ==
  IF store["global"][key] # NoSecret
  THEN [ok |-> TRUE, sec |-> store["global"][key]]
  ELSE IF project \in DOMAIN store /\ store[project][key] # NoSecret
       THEN [ok |-> TRUE, sec |-> store[project][key]]
       ELSE [ok |-> FALSE, sec |-> NoSecret]

\* Store.lookup: the project's section first, then [global]
lookup(store, project, key) ==
  IF project \in DOMAIN store /\ store[project][key] # NoSecret
  THEN [ok |-> TRUE, sec |-> store[project][key]]
  ELSE IF store["global"][key] # NoSecret
       THEN [ok |-> TRUE, sec |-> store["global"][key]]
       ELSE [ok |-> FALSE, sec |-> NoSecret]

\* Store.Resolve
Resolve(store, project, key) ==
  LET r == lookup(store, project, key)
  IN  IF r.ok
      THEN IF r.sec.kind = "structured"
           THEN Ok(Marshal(r.sec.Fields))
           ELSE Ok(<<"text", r.sec.Value>>)
      ELSE Err("not found")

\* the get_secret handler that NewServer registers for dagName
GetSecretHandler(store, dagName, key) ==
  IF key = "" THEN Err("missing required parameter: key")
  ELSE Resolve(store, dagName, key)

InitSecrets ==
  /\ secStore \in [Scopes -> [SecretKeys -> SecretValues \cup {NoSecret}]]
  /\ secCall = <<>>
  /\ secOut = <<>>
  /\ EngineIdle
  /\ ServeIdle
  /\ SDKIdle
  /\ WatchIdle
  /\ TopoIdle
  /\ RunIDIdle
  /\ PrefixIdle
  /\ ScriptIdle
  /\ CronIdle
  /\ StableIdle

\* a caller resolves a key for a project
SecResolve(project, key) ==
  /\ secCall = <<>>
  /\ secCall' = <<"Resolve", project, key>>
  /\ secOut' = Resolve(secStore, project, key)
  /\ UNCHANGED secStore
  /\ UNCHANGED outsideSecrets

\* a task of a run of DAG dagName sends a get_secret request
SecGetSecret(dagName, key) ==
  /\ secCall = <<>>
  /\ secCall' = <<"get_secret", dagName, key>>
  /\ secOut' = GetSecretHandler(secStore, dagName, key)
  /\ UNCHANGED secStore
  /\ UNCHANGED outsideSecrets

NextSecrets ==
  \/ \E p \in DAGNames, k \in SecretKeys : SecResolve(p, k)
  \/ \E d \in DAGNames, k \in SecretKeys : SecGetSecret(d, k)

SpecSecrets == InitSecrets /\ [][NextSecrets]_secVars

\* what a caller reads from a stored secret
SecretText(sec) ==
  IF sec.kind = "structured" THEN <<"json", sec.Fields>>
  ELSE <<"text", sec.Value>>

\* the resolution the secrets file prescribes for a project and a key
ScopedValue(store, project, key) ==
  IF store[project][key] # NoSecret THEN Ok(SecretText(store[project][key]))
  ELSE IF store["global"][key] # NoSecret
       THEN Ok(SecretText(store["global"][key]))
       ELSE Err("not found")

\* the store with one more project-scoped secret
StoreWith(store, project, key, sec) ==
  [store EXCEPT ![project] = [@ EXCEPT ![key] = sec]]

\* C25: Resolve(project, key) returns the project's value if there is one,
\* else the global value, else an error; a value that only [global] holds
\* is seen by every project, and adding a project-scoped value changes the
\* result for that project only; a get_secret request that carries a key
\* is answered with this resolution for the run's DAG name
C25_ScopedResolution ==
  /\ (secCall # <<>> /\ secCall[1] = "Resolve") =>
        secOut = ScopedValue(secStore, secCall[2], secCall[3])
  /\ (secCall # <<>> /\ secCall[1] = "get_secret" /\ secCall[3] # "") =>
        secOut = ScopedValue(secStore, secCall[2], secCall[3])
  /\ \A k \in SecretKeys :
       (/\ secStore["global"][k] # NoSecret
        /\ \A p \in DAGNames : secStore[p][k] = NoSecret) =>
          /\ \A p \in DAGNames :
                Resolve(secStore, p, k) = Ok(SecretText(secStore["global"][k]))
          /\ \A p \in DAGNames, sec \in SecretValues :
                LET added == StoreWith(secStore, p, k, sec)
                IN  /\ Resolve(added, p, k) = Ok(SecretText(sec))
                    /\ \A q \in DAGNames \ {p} :
                          Resolve(added, q, k) = Resolve(secStore, q, k)

\* a get_secret request is answered with the project's value although
\* [global] holds another value under the same key
C25_Witness ==
  /\ secCall = <<"get_secret", "d1", "k">>
  /\ secStore["d1"]["k"].kind = "plain"
  /\ secStore["d1"]["k"].Value = "w"
  /\ secStore["global"]["k"].Value = "v"
  /\ secStore["global"]["k"].kind = "plain"
  /\ secOut = Ok(<<"text", "w">>)

\* a request without a key is refused although the store holds a secret
\* under the empty key
C25_EmptyKeyRefusedReached ==
  /\ secCall = <<"get_secret", "d1", "">>
  /\ secStore["d1"][""] # NoSecret
  /\ secOut.err = "missing required parameter: key"

(* ---------------------------------------------------------------------- *)
(* Verbose output of concurrent tasks: prefixWriter.Write                  *)
(* ---------------------------------------------------------------------- *)

\* the calls of Write by one task that are enumerated
MaxWrites == 2

\* the longest p handed to one call of Write
MaxChunk == 2

\* the tasks of the level that run concurrently with a prefixWriter each
PwTasks == {"a", "b"}

\* the bytes of the output: a letter and the line feed
Bytes == {"x", "LF"}

\* the non-empty p that the copying goroutine of the process hands to Write
Chunks == UNION {[1 .. n -> Bytes] : n \in 1 .. MaxChunk}

\* the index of the first line feed of buf, 0 if there is none
FirstLF(buf) ==
  IF \E i \in DOMAIN buf : buf[i] = "LF"
  THEN CHOOSE i \in DOMAIN buf :
         buf[i] = "LF" /\ \A j \in 1 .. (i - 1) : buf[j] # "LF"
  ELSE 0

\* where Write goes after the scan of buf: to the two writes of a line
\* or to its return
AfterScan(buf) == IF FirstLF(buf) = 0 THEN "idle" ELSE "prefix"

InitPrefix ==
  /\ pwCalls = [t \in PwTasks |-> 0]
  /\ pwBuf = [t \in PwTasks |-> <<>>]
  /\ pwPc = [t \in PwTasks |-> "idle"]
  /\ pwStream = <<>>
  /\ EngineIdle
  /\ ServeIdle
  /\ SDKIdle
  /\ WatchIdle
  /\ TopoIdle
  /\ RunIDIdle
  /\ SecretsIdle
  /\ ScriptIdle
  /\ CronIdle
  /\ StableIdle

\* Write(p) of task t: pw.buf = append(pw.buf, p...) and the first scan
PwWrite(t, p) ==
  /\ pwPc[t] = "idle"
  /\ pwCalls[t] < MaxWrites
  /\ pwCalls' = [pwCalls EXCEPT ![t] = @ + 1]
  /\ pwBuf' = [pwBuf EXCEPT ![t] = @ \o p]
  /\ pwPc' = [pwPc EXCEPT ![t] = AfterScan(pwBuf'[t])]
  /\ UNCHANGED pwStream
  /\ UNCHANGED outsidePrefix

\* pw.dest.Write(pw.prefix)
PwWritePrefix(t) ==
  /\ pwPc[t] = "prefix"
  /\ pwStream' = Append(pwStream, [by |-> t, kind |-> "prefix", data |-> <<>>])
  /\ pwPc' = [pwPc EXCEPT ![t] = "line"]
  /\ UNCHANGED <<pwCalls, pwBuf>>
  /\ UNCHANGED outsidePrefix

\* pw.dest.Write(line); pw.buf = pw.buf[idx+1:] and the next scan
PwWriteLine(t) ==
  /\ pwPc[t] = "line"
  /\ LET idx == FirstLF(pwBuf[t])
     IN  /\ pwStream' = Append(pwStream,
                           [by |-> t, kind |-> "line",
                            data |-> SubSeq(pwBuf[t], 1, idx)])
         /\ pwBuf' = [pwBuf EXCEPT ![t] = SubSeq(@, idx + 1, Len(@))]
  /\ pwPc' = [pwPc EXCEPT ![t] = AfterScan(pwBuf'[t])]
  /\ UNCHANGED pwCalls
  /\ UNCHANGED outsidePrefix

NextPrefix ==
  \/ \E t \in PwTasks, p \in Chunks : PwWrite(t, p)
  \/ \E t \in PwTasks : PwWritePrefix(t)
  \/ \E t \in PwTasks : PwWriteLine(t)

SpecPrefix == InitPrefix /\ [][NextPrefix]_pwVars

\* C26: in verbose mode the terminal stream of concurrent tasks is
\* interleaved at line granularity only: every line is contiguous and
\* immediately preceded by the prefix of the task that wrote it
C26_LinesPrefixedAndContiguous ==
  \A i \in DOMAIN pwStream :
     pwStream[i].kind = "line" =>
       /\ i > 1
       /\ pwStream[i - 1].kind = "prefix"
       /\ pwStream[i - 1].by = pwStream[i].by

\* the terminal shows "[a] [b] " and then the line of b
C26_PrefixesInterleavedReached ==
  /\ Len(pwStream) >= 3
  /\ pwStream[1] = [by |-> "a", kind |-> "prefix", data |-> <<>>]
  /\ pwStream[2] = [by |-> "b", kind |-> "prefix", data |-> <<>>]
  /\ pwStream[3].by = "b"
  /\ pwStream[3].kind = "line"

(* ---------------------------------------------------------------------- *)
(* Path containment: RunContext.ValidateScript in executeTask              *)
(* ---------------------------------------------------------------------- *)

\* the longest script path, in path elements
MaxPathLen == 3

\* the path elements of a script: the parent directory, a name, and a
\* name that begins with two dots
PathElements == {"..", "d", "..d"}

\* the values of ti.Script that are enumerated
Scripts == UNION {[1 .. n -> PathElements] : n \in 1 .. MaxPathLen}

\* run.SnapshotDir: <absRunsDir>/<runID>/project
SnapshotDir == <<"runs", "id", "project">>

\* filepath.Clean of an absolute path: ".." removes the element before it
\* and is dropped at the root
RECURSIVE CleanFrom(_, _)
CleanFrom(done, rest) ==
  IF rest = <<>> THEN done
  ELSE IF Head(rest) = ".."
       THEN CleanFrom(IF done = <<>> THEN <<>>
                      ELSE SubSeq(done, 1, Len(done) - 1), Tail(rest))
       ELSE CleanFrom(Append(done, Head(rest)), Tail(rest))

\* filepath.Join(run.SnapshotDir, ti.Script)
JoinPath(dir, script) == CleanFrom(<<>>, dir \o script)

\* the number of leading elements two paths share
CommonPrefixLen(a, b) ==
  CHOOSE k \in 0 .. Len(a) :
    /\ k <= Len(b)
    /\ \A i \in 1 .. k : a[i] = b[i]
    /\ (k < Len(a) /\ k < Len(b)) => a[k + 1] # b[k + 1]

\* filepath.Rel(base, target) of two clean absolute paths
Rel(base, target) ==
  LET k == CommonPrefixLen(base, target)
  IN  [i \in 1 .. (Len(base) - k) |-> ".."] \o SubSeq(target, k + 1, Len(target))

\* strings.HasPrefix(rel, ".."): the text of rel begins with two dots
HasDotDotPrefix(rel) == rel # <<>> /\ rel[1] \in {"..", "..d"}

\* mutant: every script path passes
ValidateScriptAccepts(dir, scriptPath) == FALSE

\* RunContext.ValidateScript returns an error
ValidateScript(dir, scriptPath) == HasDotDotPrefix(Rel(dir, scriptPath))

InitScript ==
  /\ scScript \in Scripts
  /\ scSetupOk \in BOOLEAN
  /\ \E r \in 0 .. MaxRetriesBound :
       scTask = [Status |-> StatusPending, Attempt |-> 0, MaxRetries |-> r,
                 Error |-> NoError]
  /\ scPc = "start"
  /\ scAttempt = 0
  /\ scInvocations = 0
  /\ EngineIdle
  /\ ServeIdle
  /\ SDKIdle
  /\ WatchIdle
  /\ TopoIdle
  /\ RunIDIdle
  /\ SecretsIdle
  /\ PrefixIdle
  /\ CronIdle
  /\ StableIdle

\* ti.Status = StatusRunning
ScBegin ==
  /\ scPc = "start"
  /\ scTask' = [scTask EXCEPT !.Status = StatusRunning]
  /\ scPc' = "resolve"
  /\ UNCHANGED <<scScript, scSetupOk, scAttempt, scInvocations>>
  /\ UNCHANGED outsideScript

\* runner.Resolve and os.Create: on an error the task is failed
ScResolve ==
  /\ scPc = "resolve"
  /\ IF scSetupOk
     THEN /\ scPc' = "validate"
          /\ scTask' = scTask
     ELSE /\ scPc' = "exit"
          /\ scTask' = [scTask EXCEPT !.Status = StatusFailed,
                                       !.Error = SetupError]
  /\ UNCHANGED <<scScript, scSetupOk, scAttempt, scInvocations>>
  /\ UNCHANGED outsideScript

\* rc.ValidateScript(): on an error the task is failed; else attempt := 1
ScValidate ==
  /\ scPc = "validate"
  /\ IF ValidateScript(SnapshotDir, JoinPath(SnapshotDir, scScript))
     THEN /\ scPc' = "exit"
          /\ scTask' = [scTask EXCEPT !.Status = StatusFailed,
                                       !.Error = SetupError]
          /\ scAttempt' = scAttempt
     ELSE /\ scPc' = "loop"
          /\ scTask' = scTask
          /\ scAttempt' = 1
  /\ UNCHANGED <<scScript, scSetupOk, scInvocations>>
  /\ UNCHANGED outsideScript

\* attempt <= maxAttempts: ti.Attempt = attempt and r.Run is called; after
\* the loop ti.Status = StatusFailed
ScLoopHead ==
  /\ scPc = "loop"
  /\ IF scAttempt <= scTask.MaxRetries + 1
     THEN /\ scTask' = [scTask EXCEPT !.Attempt = scAttempt]
          /\ scPc' = "run"
          /\ scInvocations' = scInvocations + 1
     ELSE /\ scTask' = [scTask EXCEPT !.Status = StatusFailed]
          /\ scPc' = "exit"
          /\ scInvocations' = scInvocations
  /\ UNCHANGED <<scScript, scSetupOk, scAttempt>>
  /\ UNCHANGED outsideScript

\* r.Run returns nil
ScRunSucceeds ==
  /\ scPc = "run"
  /\ scTask' = [scTask EXCEPT !.Status = StatusSuccess]
  /\ scPc' = "exit"
  /\ UNCHANGED <<scScript, scSetupOk, scAttempt, scInvocations>>
  /\ UNCHANGED outsideScript

\* r.Run returns an error: attempt++
ScRunFails ==
  /\ scPc = "run"
  /\ scTask' = [scTask EXCEPT !.Error = RunError(scAttempt)]
  /\ scAttempt' = scAttempt + 1
  /\ scPc' = "loop"
  /\ UNCHANGED <<scScript, scSetupOk, scInvocations>>
  /\ UNCHANGED outsideScript

NextScript ==
  \/ ScBegin
  \/ ScResolve
  \/ ScValidate
  \/ ScLoopHead
  \/ ScRunSucceeds
  \/ ScRunFails

SpecScript == InitScript /\ [][NextScript]_scriptVars

\* the script path leads out of the snapshot directory
ResolvesOutside(script) ==
  LET target == JoinPath(SnapshotDir, script)
  IN  ~(/\ Len(target) >= Len(SnapshotDir)
        /\ SubSeq(target, 1, Len(SnapshotDir)) = SnapshotDir)

\* C27: a task whose script path resolves outside the snapshot directory is
\* never handed to a runner and its attempt counter stays 0, whatever its
\* retry settings; when executeTask returns it is failed
C27_EscapingScriptNeverRuns ==
  ResolvesOutside(scScript) =>
    /\ scInvocations = 0
    /\ scTask.Attempt = 0
    /\ scPc # "run"
    /\ scPc = "exit" => scTask.Status = StatusFailed

\* a task with retries and the script ../d was failed by ValidateScript
C27_Witness ==
  /\ scScript = <<"..", "d">>
  /\ scSetupOk
  /\ scTask.MaxRetries = MaxRetriesBound
  /\ scPc = "exit"
  /\ scTask.Status = StatusFailed
  /\ scTask.Attempt = 0

\* a script below a directory whose name begins with two dots is refused
\* although it lies inside the snapshot directory
C27_InsideRefusedReached ==
  /\ scScript = <<"..d", "d">>
  /\ scSetupOk
  /\ scPc = "exit"
  /\ scTask.Attempt = 0

(* ---------------------------------------------------------------------- *)
(* CronTrigger.Start                                                       *)
(* ---------------------------------------------------------------------- *)

\* the fires of the schedule that are enumerated
MaxFires == 3

\* the capacity of the events channel
CronChCap == 1

\* the DAG of the trigger
CronDAG == "d2"

\* Event{DAGName: ct.dagName, Source: "cron"}
CronEvent == [DAGName |-> CronDAG, Source |-> "cron", Files |-> <<>>]

\* mutant: the job gives up whether or not the context is done
AbandonReadyAlways(done) == TRUE

\* case <-ctx.Done() of the job's select is ready
AbandonReady(done) == done

\* case events <- Event{...} of the job's select is ready
SendReady(ch) == Len(ch) < CronChCap

SetFire(i, st) == [cronFires EXCEPT ![i] = st]

\* Start has added the job and called c.Start(); it waits in <-ctx.Done()
InitCron ==
  /\ cronCtxDone = FALSE
  /\ cronCh = <<>>
  /\ cronStartPc = "waiting"
  /\ cronRunning = TRUE
  /\ cronFires = <<>>
  /\ cronSent = <<>>
  /\ EngineIdle
  /\ ServeIdle
  /\ SDKIdle
  /\ WatchIdle
  /\ TopoIdle
  /\ RunIDIdle
  /\ SecretsIdle
  /\ PrefixIdle
  /\ ScriptIdle
  /\ StableIdle

\* the context is cancelled
CronCancel ==
  /\ ~cronCtxDone
  /\ cronCtxDone' = TRUE
  /\ UNCHANGED <<cronCh, cronStartPc, cronRunning, cronFires, cronSent>>
  /\ UNCHANGED outsideCron

\* the schedule is due: the scheduler starts the job in a goroutine
CronFire ==
  /\ cronRunning
  /\ Len(cronFires) < MaxFires
  /\ cronFires' = Append(cronFires, "select")
  /\ UNCHANGED <<cronCtxDone, cronCh, cronStartPc, cronRunning, cronSent>>
  /\ UNCHANGED outsideCron

\* select: case events <- Event{...}
CronSend(i) ==
  /\ i \in DOMAIN cronFires
  /\ cronFires[i] = "select"
  /\ SendReady(cronCh)
  /\ cronCh' = Append(cronCh, CronEvent)
  /\ cronSent' = Append(cronSent, [fire |-> i, ev |-> CronEvent])
  /\ cronFires' = SetFire(i, "sent")
  /\ UNCHANGED <<cronCtxDone, cronStartPc, cronRunning>>
  /\ UNCHANGED outsideCron

\* select: case <-ctx.Done()
CronAbandon(i) ==
  /\ i \in DOMAIN cronFires
  /\ cronFires[i] = "select"
  /\ AbandonReady(cronCtxDone)
  /\ cronFires' = SetFire(i, "abandoned")
  /\ UNCHANGED <<cronCtxDone, cronCh, cronStartPc, cronRunning, cronSent>>
  /\ UNCHANGED outsideCron

\* <-ctx.Done() returns: c.Stop() and return nil
CronStop ==
  /\ cronStartPc = "waiting"
  /\ cronCtxDone
  /\ cronRunning' = FALSE
  /\ cronStartPc' = "returned"
  /\ UNCHANGED <<cronCtxDone, cronCh, cronFires, cronSent>>
  /\ UNCHANGED outsideCron

\* the reader of the channel takes an event
CronReceive ==
  /\ cronCh # <<>>
  /\ cronCh' = Tail(cronCh)
  /\ UNCHANGED <<cronCtxDone, cronStartPc, cronRunning, cronFires, cronSent>>
  /\ UNCHANGED outsideCron

NextCron ==
  \/ CronCancel
  \/ CronFire
  \/ \E i \in DOMAIN cronFires : CronSend(i)
  \/ \E i \in DOMAIN cronFires : CronAbandon(i)
  \/ CronStop
  \/ CronReceive

SpecCron == InitCron /\ [][NextCron]_cronVars

\* a goroutine that can take a step takes one: Start once the context is
\* done, and a job whose case <-ctx.Done() is ready
SpecCronLive ==
  /\ SpecCron
  /\ WF_cronVars(CronStop)
  /\ \A i \in 1 .. MaxFires : WF_cronVars(CronAbandon(i) \/ CronSend(i))

\* the sends that fire i completed
SentBy(i) == {k \in DOMAIN cronSent : cronSent[k].fire = i}

\* what holds of Start and of every fire in every state
CronSafe ==
  /\ cronStartPc = "returned" => cronCtxDone
  /\ ~cronCtxDone => cronStartPc = "waiting"
  /\ \A k \in DOMAIN cronSent :
       cronSent[k].ev = [DAGName |-> CronDAG, Source |-> "cron", Files |-> <<>>]
  /\ \A i \in DOMAIN cronFires :
       /\ cronFires[i] = "sent" => Cardinality(SentBy(i)) = 1
       /\ cronFires[i] # "sent" => SentBy(i) = {}
       /\ cronFires[i] = "abandoned" => cronCtxDone

\* Start has returned and no job is left in its select
CronQuiet ==
  /\ cronStartPc = "returned"
  /\ \A i \in DOMAIN cronFires : cronFires[i] # "select"

C28_AbandonedWithRoomReached ==
  /\ cronFires = <<"abandoned">>
  /\ cronCh = <<>>
  /\ cronSent = <<>>

(* ====================================================================== *)
(* One call of trigger.FindStableFiles                                     *)
(* ====================================================================== *)

\* the entries a tracking map can hold for a name at time t: none, or a
\* size with the time of a poll that is not later than t
EntriesAt(t) ==
  {Untracked} \cup
  {[present |-> TRUE, Size |-> sz, FirstSeen |-> fs] :
     sz \in 1 .. MaxSize, fs \in 0 .. t}

\* the orders in which the range over the map can append the names of S
SlicesOf(S) ==
  {sq \in [1 .. Cardinality(S) -> S] : {sq[i] : i \in DOMAIN sq} = S}

InitStable ==
  /\ fsThreshold \in ThresholdChoices
  /\ fsNow \in 0 .. MaxTime
  /\ fsTracking \in [FileNames -> EntriesAt(fsNow)]
  /\ fsPc = "call"
  /\ fsOut = <<>>
  /\ EngineIdle
  /\ ServeIdle
  /\ SDKIdle
  /\ WatchIdle
  /\ TopoIdle
  /\ RunIDIdle
  /\ SecretsIdle
  /\ PrefixIdle
  /\ ScriptIdle
  /\ CronIdle

\* stable = FindStableFiles(tracking, threshold, now): the names are
\* appended in the order of the range over the map
FindStableCall ==
  /\ fsPc = "call"
  /\ fsOut' \in SlicesOf(FindStableFiles(fsTracking, fsThreshold, fsNow))
  /\ fsPc' = "done"
  /\ UNCHANGED <<fsTracking, fsThreshold, fsNow>>
  /\ UNCHANGED outsideStable

NextStable == FindStableCall

SpecStable == InitStable /\ [][NextStable]_stableVars

\* the names of the returned slice
Returned == {fsOut[i] : i \in DOMAIN fsOut}

\* the names in the map given to FindStableFiles
TrackedNames == {f \in FileNames : fsTracking[f].present}

\* C37: FindStableFiles returns, once each, exactly the tracked names whose
\* first_seen lies at least the threshold before now: a name exactly at the
\* threshold is returned, one below it is not, and an empty map gives an
\* empty result.
C37_StableExactlyAtOrOverThreshold ==
  fsPc = "done" =>
    /\ Len(fsOut) = Cardinality(Returned)
    /\ Returned \subseteq TrackedNames
    /\ \A f \in TrackedNames :
         /\ fsTracking[f].FirstSeen + fsThreshold <= fsNow => f \in Returned
         /\ fsTracking[f].FirstSeen + fsThreshold > fsNow => f \notin Returned
    /\ TrackedNames = {} => fsOut = <<>>

\* C37 witness: with a threshold above zero, f1 exactly at the threshold is
\* returned and f2 one tick under it is not.
C37_Witness ==
  /\ fsPc = "done"
  /\ fsThreshold = 2
  /\ fsTracking["f1"].present /\ fsTracking["f2"].present
  /\ fsNow - fsTracking["f1"].FirstSeen = fsThreshold
  /\ fsNow - fsTracking["f2"].FirstSeen = fsThreshold - 1
  /\ fsOut = <<"f1">>

\* C37: a call with an empty map has returned the empty slice.
C37_EmptyReached ==
  /\ fsPc = "done"
  /\ TrackedNames = {}
  /\ fsNow > 0
  /\ fsOut = <<>>

====
